---- MODULE Spec2Model ----
(***************************************************************************)
(* A model of the hourly anomaly pipeline of blotOutAnalysis.py:           *)
(*   aggregation of raw events into hourly tables,                         *)
(*   prophet_model (anomaly flag and percent_diff per hour),               *)
(*   the run of the top-level fits and generate_anomaly_report,            *)
(*   generate_anomaly_group_report (episodes),                             *)
(*   analyze_anomaly_scenarios (scenario lists A..D).                      *)
(* Each stage has its own specification over the same variables; the       *)
(* variables of the other stages keep their initial values.                *)
(***************************************************************************)
EXTENDS Integers, Sequences, FiniteSets, TLC

(***************************************************************************)
(* Bounds of the model.                                                    *)
(***************************************************************************)
DetHours == 2      \* hours of the series given to prophet_model
MaxCount == 2      \* largest hourly count / forecast value
GroupHours == 6    \* hours of the anomaly report (grouping family)
MaxAnomalies == 3  \* anomalous (hour, metric) cells of that report
ScenarioHours == 3        \* hours of the anomaly report (scenario family)
MaxScenarioAnomalies == 3 \* anomalous (hour, metric) cells of that report
WindowHours == 3   \* hours of the analysis window (aggregation)
MaxEvents == 2     \* raw events of the input frame
MaxFailures == 2   \* forecast fits that raise during one run

VARIABLES
    stage,         \* position of the run inside the stage being modelled
    subset,        \* prophet_model: the input series, a sequence of [ds, y]
    engine,        \* prophet_model: what m.predict(future) returns per row
    forecast,      \* prophet_model: the returned frame
    is_anomaly_again,      \* the flags of a second run of the detection step
    anomaly_report,        \* the frame generate_anomaly_report returned
    group_id,              \* df['group_id'] by row index (0 is NaN)
    group_sign,            \* df['group_sign'] by row index (0 is NaN)
    processed_indices,
    i,                     \* position of the outer while loop (1-based)
    current_group,
    current_group_members, \* row indices, the seed first
    group_changed,
    group_df,              \* the episodes generate_anomaly_group_report returns
    scenarios,             \* the lists A..D analyze_anomaly_scenarios returns
    events_df,             \* aggregation: the raw events frame df, in file order
    visitors,              \* one row per session_id
    visitors_by_geography, \* hour -> geography column -> count
    visitors_by_device,    \* hour -> device column (and Total) -> count
    sessions_by_source,    \* hour -> utm_source column (and Total) -> count
    fit_fails,             \* the run: the (frame, column) fits on which Prophet raises
    call,                  \* the run: position in the list of metrics
    top_level,             \* metrics whose <metric>_top_level frame exists
    contributions,         \* metrics whose <metric>_contributions frame exists
    reported,              \* metrics generate_anomaly_report has processed
    row_values,            \* find_maximum_contributors: the row, one value per column
    eps,                   \* find_maximum_contributors: eps
    contributing_columns,  \* find_maximum_contributors: what it returns
    config,                \* load_config: what json.load returned
    load_result,           \* load_config: the value returned or the error raised
    metric_anomaly_counts, \* root cause analysis: anomaly count per metric
    row_contributors,      \* root cause analysis: new_row[<metric>_contributors]
    root_cause,            \* root cause analysis: the label of the episode
    visitor_device_contributing_columns,    \* create_contributor_col of the device frame
    visitor_geography_contributing_columns, \* create_contributor_col of the geography frame
    visitor_contributing_columns, \* the merge of the two
    forecast_df,   \* determine_anomaly_weight: the frame df
    forecast_row,   \* determine_anomaly_weight: the row
    result, \* determine_anomaly_weight: what it returns
    tables,   \* the frame objects of a call, by object id
    passed,   \* the ids of the frames passed to the function
    before,   \* the frames as they were when the function was called
    returned, \* the id of the frame the function returned (0: not a frame)
    models,   \* per metric, the rows of its top-level forecast
    anomaly_df,   \* per hour of the window, the metrics listed in event_names
    report_df   \* per hour of the window, the <metric>_anomaly flags of the report

detVars == <<subset, engine, forecast, is_anomaly_again>>
scnVars == <<scenarios>>
grpVars == <<anomaly_report, group_id, group_sign, processed_indices, i,
             current_group, current_group_members, group_changed, group_df>>
aggVars == <<events_df, visitors, visitors_by_geography, visitors_by_device,
             sessions_by_source>>
runVars == <<fit_fails, call, top_level, contributions, reported>>
attVars == <<row_values, eps, contributing_columns>>
cfgVars == <<config, load_result>>
rcVars == <<metric_anomaly_counts, row_contributors, root_cause>>
cmbVars == <<visitor_device_contributing_columns, visitor_geography_contributing_columns,
             visitor_contributing_columns>>
wgtVars == <<forecast_df, forecast_row, result>>
frmVars == <<tables, passed, before, returned>>
tblVars == <<models, anomaly_df, report_df>>
laterVars == <<cmbVars, wgtVars, frmVars, tblVars>>
vars == <<stage, subset, engine, forecast, is_anomaly_again, anomaly_report, group_id, group_sign,
          processed_indices, i, current_group, current_group_members,
          group_changed, group_df, scenarios, events_df, visitors,
          visitors_by_geography, visitors_by_device, sessions_by_source,
          fit_fails, call, top_level, contributions, reported,
          row_values, eps, contributing_columns, config, load_result,
          metric_anomaly_counts, row_contributors, root_cause,
          visitor_device_contributing_columns, visitor_geography_contributing_columns,
          visitor_contributing_columns,
          forecast_df, forecast_row, result,
          tables, passed, before, returned,
          models, anomaly_df, report_df>>

\* The values the variables of a stage hold while another stage is modelled.
IdleDetector ==
    subset = << >> /\ engine = << >> /\ forecast = << >> /\ is_anomaly_again = << >>

IdleGroup ==
    /\ anomaly_report = << >> /\ group_id = << >> /\ group_sign = << >>
    /\ processed_indices = {} /\ i = 1 /\ current_group = 0
    /\ current_group_members = << >> /\ group_changed = FALSE /\ group_df = << >>

NoScenarios == [A |-> << >>, B |-> << >>, C |-> << >>, D |-> << >>]

IdleScenario == scenarios = NoScenarios

IdleAggregator ==
    /\ events_df = << >> /\ visitors = {} /\ visitors_by_geography = << >>
    /\ visitors_by_device = << >> /\ sessions_by_source = << >>

IdleRun ==
    /\ fit_fails = {} /\ call = 1 /\ top_level = {} /\ contributions = {}
    /\ reported = {}

IdleAttributor == row_values = << >> /\ eps = 1 /\ contributing_columns = << >>

IdleConfig == config = << >> /\ load_result = << >>

IdleRootCause ==
    metric_anomaly_counts = << >> /\ row_contributors = << >> /\ root_cause = << >>

IdleCombine ==
    /\ visitor_device_contributing_columns = << >>
    /\ visitor_geography_contributing_columns = << >>
    /\ visitor_contributing_columns = {}

IdleWeight ==
    forecast_df = << >> /\ forecast_row = << >> /\ result = 0

IdleFrames ==
    tables = << >> /\ passed = {} /\ before = << >> /\ returned = 0

IdleTables ==
    models = << >> /\ anomaly_df = << >> /\ report_df = << >>

IdleLater == IdleCombine /\ IdleWeight /\ IdleFrames /\ IdleTables

(***************************************************************************)
(* Floating point values as fractions num/den.  den = 0 holds the IEEE     *)
(* specials: 0/0 is NaN, 1/0 is +inf, -1/0 is -inf.                        *)
(***************************************************************************)
Sign(n) == IF n > 0 THEN 1 ELSE IF n < 0 THEN -1 ELSE 0

NaN == [num |-> 0, den |-> 0]

FromInt(n) == [num |-> n, den |-> 1]

IsNaN(x) == x.den = 0 /\ x.num = 0

IsInf(x) == x.den = 0 /\ x.num # 0

IsZero(x) == x.den # 0 /\ x.num = 0

\* Series.where(cond): the value where cond holds, NaN elsewhere.
Where(x, cond) == IF cond THEN x ELSE NaN

\* Float division a / b: NaN propagates, n/0 is +-inf, 0/0 is NaN.
FDiv(a, b) ==
    IF IsNaN(a) \/ IsNaN(b) THEN NaN
    ELSE IF b.num = 0 THEN [num |-> Sign(a.num), den |-> 0]
    ELSE [num |-> a.num * b.den * Sign(b.num),
          den |-> a.den * b.num * Sign(b.num)]

(***************************************************************************)
(* prophet_model                                                           *)
(***************************************************************************)
\* forecast['percent_diff'] = (y - yhat) / y.where(y != 0)
PercentDiffUnguarded(y, yhat) == FDiv(FromInt(y - yhat), FromInt(y))

PercentDiff(y, yhat) == FDiv(FromInt(y - yhat), Where(FromInt(y), y # 0))

\* 1 if not (yhat_lower <= y <= yhat_upper) else 0
IsAnomalyStrictInside(y, lower, upper) ==
    IF ~(lower < y /\ y < upper) THEN 1 ELSE 0

IsAnomaly(y, lower, upper) ==
    IF ~(lower <= y /\ y <= upper) THEN 1 ELSE 0

\* abs(yhat - y)
Diff(y, yhat) == IF yhat - y >= 0 THEN yhat - y ELSE y - yhat

\* What the forecast engine may return for one hour: an interval around yhat.
EnginePoints ==
    { p \in [yhat_lower : 0..MaxCount, yhat : 0..MaxCount, yhat_upper : 0..MaxCount] :
        p.yhat_lower <= p.yhat /\ p.yhat <= p.yhat_upper }

\* The frame prophet_model returns: one row per row of the forecast, y taken
\* from the input row of the same index.
ForecastFrame(sub, eng) ==
    [k \in 1..Len(eng) |->
        [ds           |-> sub[k].ds,
         yhat_lower   |-> eng[k].yhat_lower,
         yhat_upper   |-> eng[k].yhat_upper,
         yhat         |-> eng[k].yhat,
         y            |-> sub[k].y,
         is_anomaly   |-> IsAnomaly(sub[k].y, eng[k].yhat_lower, eng[k].yhat_upper),
         diff         |-> Diff(sub[k].y, eng[k].yhat),
         percent_diff |-> PercentDiff(sub[k].y, eng[k].yhat)]]

InitDetector ==
    /\ stage = "fit"
    /\ \E ys \in [1..DetHours -> 0..MaxCount] :
          subset = [k \in 1..DetHours |-> [ds |-> k - 1, y |-> ys[k]]]
    /\ engine \in [1..DetHours -> EnginePoints]
    /\ forecast = << >>
    /\ is_anomaly_again = << >>
    /\ IdleGroup
    /\ IdleScenario
    /\ IdleAggregator
    /\ IdleRun
    /\ IdleAttributor
    /\ IdleConfig
    /\ IdleRootCause
    /\ IdleLater

prophet_model ==
    /\ stage = "fit"
    /\ forecast' = ForecastFrame(subset, engine)
    /\ stage' = "detected"
    /\ UNCHANGED <<subset, engine, is_anomaly_again>>
    /\ UNCHANGED <<grpVars, scnVars, aggVars, runVars, attVars, cfgVars, rcVars, laterVars>>

\* A flag that looks at the bounds of the first row of the frame.
ApplyIsAnomalyFirstRowBounds(frame) ==
    [k \in 1..Len(frame) |->
        IsAnomaly(frame[k].y, frame[1].yhat_lower, frame[1].yhat_upper)]

\* forecast.apply(lambda row: 1 if not (row['yhat_lower'] <= row['y'] <=
\* row['yhat_upper']) else 0, axis=1)
ApplyIsAnomaly(frame) ==
    [k \in 1..Len(frame) |->
        IsAnomaly(frame[k].y, frame[k].yhat_lower, frame[k].yhat_upper)]

\* The detection step run a second time, on the actual values and the
\* bounds of the frame the first run returned.
DetectAgain ==
    /\ stage = "detected"
    /\ is_anomaly_again' = ApplyIsAnomaly(forecast)
    /\ stage' = "redetected"
    /\ UNCHANGED <<subset, engine, forecast>>
    /\ UNCHANGED <<grpVars, scnVars, aggVars, runVars, attVars, cfgVars, rcVars, laterVars>>

NextDetector ==
    \/ prophet_model
    \/ DetectAgain

SpecDetector == InitDetector /\ [][NextDetector]_vars

C2_AnomalyIffOutOfBand ==
    stage = "detected" =>
        \A k \in 1..Len(forecast) :
            /\ forecast[k].is_anomaly \in {0, 1}
            /\ forecast[k].is_anomaly = 1 <=>
                  (forecast[k].y < forecast[k].yhat_lower \/ forecast[k].y > forecast[k].yhat_upper)
            /\ (forecast[k].y = forecast[k].yhat_lower \/ forecast[k].y = forecast[k].yhat_upper)
                  => forecast[k].is_anomaly = 0

C2_Witness ==
    /\ stage = "detected"
    /\ \E k \in 1..Len(forecast) :
          forecast[k].y = forecast[k].yhat_upper /\ forecast[k].yhat_lower < forecast[k].y
             /\ forecast[k].is_anomaly = 0
    /\ \E k \in 1..Len(forecast) :
          forecast[k].y > forecast[k].yhat_upper /\ forecast[k].is_anomaly = 1

(***************************************************************************)
(* The anomaly report: one row per hour of the window, in ds order.  For   *)
(* each metric the row holds <metric>_anomaly, <metric>_percent_diff and   *)
(* <metric>_contributors; has_anomaly is the maximum of the anomaly        *)
(* columns.                                                                *)
(***************************************************************************)
\* The tracked metrics, in the column order of the report.
metric_names == <<"visitors", "orders">>

MetricSet == {metric_names[k] : k \in 1..Len(metric_names)}

Max2(a, b) == IF a >= b THEN a ELSE b

Abs(n) == IF n >= 0 THEN n ELSE -n

RECURSIVE SeqMax(_)
SeqMax(s) == IF Len(s) = 0 THEN 0 ELSE Max2(Head(s), SeqMax(Tail(s)))

\* report_df['has_anomaly'] = report_df[anomaly_columns].max(axis=1)
HasAnomaly(anomaly) == SeqMax([k \in 1..Len(metric_names) |-> anomaly[metric_names[k]]])

Pos == [num |-> 1, den |-> 2]

Neg == [num |-> -1, den |-> 2]

Zero == [num |-> 0, den |-> 1]

\* What an anomalous (hour, metric) cell may hold: the percent_diff of an
\* out-of-band hour is positive, negative, or NaN (y = 0 below the band).
GroupKinds ==
    { [percent_diff |-> pd, contributors |-> {}] : pd \in {Pos, Neg, NaN} }

\* The report with the cells of `cells` anomalous and every other cell quiet
\* (anomaly 0, percent_diff 0, contributors None).
Report(hours, cells, kind) ==
    [h \in 1..hours |->
        LET anomaly == [m \in MetricSet |-> IF <<h, m>> \in cells THEN 1 ELSE 0]
        IN  [ds           |-> h - 1,
             anomaly      |-> anomaly,
             percent_diff |-> [m \in MetricSet |->
                                 IF <<h, m>> \in cells THEN kind[<<h, m>>].percent_diff
                                 ELSE Zero],
             contributors |-> [m \in MetricSet |->
                                 IF <<h, m>> \in cells THEN kind[<<h, m>>].contributors
                                 ELSE {}],
             has_anomaly  |-> HasAnomaly(anomaly)]]

\* The sets of cells that may be anomalous together.
CellSets(hours, maxCells) ==
    { c \in SUBSET ((1..hours) \X MetricSet) : Cardinality(c) <= maxCells }

(***************************************************************************)
(* generate_anomaly_group_report                                           *)
(***************************************************************************)
\* metric_columns: every column of the report that ends with _percent_diff,
\* in column order.  generate_anomaly_report creates, after the top-level
\* <metric>_percent_diff of a metric that has a geography frame, the column
\* <metric>_geo_Global_percent_diff and fails on it before it creates another.
metric_columns ==
    [k \in 1..(2 * Len(metric_names)) |->
        IF k % 2 = 1
        THEN [metric |-> metric_names[(k + 1) \div 2], column |-> "percent_diff"]
        ELSE [metric |-> metric_names[k \div 2], column |-> "geo_Global_percent_diff"]]

\* row[metric]: the top-level percent_diff of the hour, and the 0 the
\* <metric>_geo_Global_percent_diff column is created with.
ColumnValue(row, c) ==
    IF c.column = "percent_diff" THEN row.percent_diff[c.metric] ELSE Zero

\* The sign of the last column whose percent_diff is not NaN and not 0.
RECURSIVE LastSign(_, _)
LastSign(row, k) ==
    IF k > Len(metric_columns) THEN 0
    ELSE LET v == ColumnValue(row, metric_columns[k])
             later == LastSign(row, k + 1)
         IN  IF later # 0 THEN later
             ELSE IF ~IsNaN(v) /\ v.num # 0
                  THEN (IF v.num * v.den > 0 THEN 1 ELSE -1)
                  ELSE 0

\* The sign of a row: that of the first metric column whose percent_diff is
\* not NaN and not 0; 0 stands for None.
RECURSIVE FirstSign(_, _)
FirstSign(row, k) ==
    IF k > Len(metric_columns) THEN 0
    ELSE LET v == ColumnValue(row, metric_columns[k])
         IN  IF ~IsNaN(v) /\ v.num # 0
             THEN (IF v.num * v.den > 0 THEN 1 ELSE -1)
             ELSE FirstSign(row, k + 1)

RowSign(row) == FirstSign(row, 1)

\* df.index.tolist(): every row, anomalous or not.
AllIndices(df) == [k \in 1..Len(df) |-> k]

\* anomaly_indices = df[df['has_anomaly'] == 1].index.tolist()
AnomalyIndices(df) == SelectSeq([k \in 1..Len(df) |-> k], LAMBDA k : df[k].has_anomaly = 1)

Range(s) == {s[k] : k \in 1..Len(s)}

\* time_diff <= 3 for ANY member of the current group
WithinWindowOfSeed(df, next_idx, members) ==
    Abs(df[next_idx].ds - df[members[1]].ds) <= 3

WithinWindow(df, next_idx, members) ==
    \E k \in 1..Len(members) : Abs(df[next_idx].ds - df[members[k]].ds) <= 3

\* next_sign == current_sign
SignMatchesAlways(next_sign, current_sign) == TRUE

SignMatches(next_sign, current_sign) == next_sign = current_sign

\* One pass of `for j in range(len(anomaly_indices))`: the members after the
\* candidates j.. have been looked at, each against the members so far.
RECURSIVE AbsorbFrom(_, _, _, _, _, _)
AbsorbFrom(df, anomaly_indices, j, members, processed, current_sign) ==
    IF j > Len(anomaly_indices) THEN members
    ELSE LET next_idx == anomaly_indices[j]
         IN  IF next_idx \in processed \/ next_idx \in Range(members)
                THEN AbsorbFrom(df, anomaly_indices, j + 1, members, processed, current_sign)
             ELSE IF ~WithinWindow(df, next_idx, members)
                THEN AbsorbFrom(df, anomaly_indices, j + 1, members, processed, current_sign)
             ELSE IF SignMatches(RowSign(df[next_idx]), current_sign)
                THEN AbsorbFrom(df, anomaly_indices, j + 1, Append(members, next_idx),
                                processed, current_sign)
             ELSE AbsorbFrom(df, anomaly_indices, j + 1, members, processed, current_sign)

SetMin(S) == CHOOSE x \in S : \A y \in S : x <= y

SetMax(S) == CHOOSE x \in S : \A y \in S : x >= y

\* Every row from the first to the last row of the group.
GroupDataSpan(gid, ids) ==
    LET rows == {k \in DOMAIN ids : ids[k] = gid}
    IN  IF rows = {} THEN {}
        ELSE {k \in DOMAIN ids : SetMin(rows) <= k /\ k <= SetMax(rows)}

\* group_data = df[df['group_id'] == group_id], as row indices
GroupData(gid, ids) == {k \in DOMAIN ids : ids[k] = gid}

\* new_row['start_time'] = group_data['ds'].min()
GroupStartOfFrame(df, gid, ids) == SetMin({df[k].ds : k \in DOMAIN df})

GroupStart(df, gid, ids) == SetMin({df[k].ds : k \in GroupData(gid, ids)})

\* new_row['end_time'] = group_data['ds'].max()
GroupEnd(df, gid, ids) == SetMax({df[k].ds : k \in GroupData(gid, ids)})

RECURSIVE SetSum(_, _)
SetSum(S, f) ==
    IF S = {} THEN 0
    ELSE LET x == CHOOSE y \in S : TRUE IN f[x] + SetSum(S \ {x}, f)

\* The elements of S as a list, in the order the list holds them.
RECURSIVE AsList(_)
AsList(S) ==
    IF S = {} THEN << >>
    ELSE LET x == CHOOSE y \in S : TRUE IN <<x>> \o AsList(S \ {x})

\* all_contributors: the contributor lists of the rows of the group, one
\* after another in row order (None and NaN add nothing).
RECURSIVE AllContributors(_, _, _)
AllContributors(df, rows, m) ==
    IF rows = {} THEN << >>
    ELSE LET k == SetMin(rows)
         IN  AsList(df[k].contributors[m]) \o AllContributors(df, rows \ {k}, m)

KeepDuplicates(all_contributors) == all_contributors

\* list(set(all_contributors))
RemoveDuplicates(all_contributors) == AsList(Range(all_contributors))

ANOMALY_PRIORITY ==
    [landing_page |-> 1, visitors |-> 2, search |-> 3, login |-> 4,
     added_to_cart |-> 5, checkout_started |-> 6, orders |-> 7, buyers |-> 8]

\* ANOMALY_PRIORITY.get(x, inf) <= ANOMALY_PRIORITY.get(y, inf)
PriorityLE(x, y) ==
    IF y \notin DOMAIN ANOMALY_PRIORITY THEN TRUE
    ELSE IF x \notin DOMAIN ANOMALY_PRIORITY THEN FALSE
    ELSE ANOMALY_PRIORITY[x] <= ANOMALY_PRIORITY[y]

\* min(hour_metrics, key=priority): the first metric of least priority value.
RECURSIVE MinByPriority(_)
MinByPriority(ms) ==
    IF Len(ms) = 1 THEN ms[1]
    ELSE LET rest == MinByPriority(Tail(ms))
         IN  IF PriorityLE(ms[1], rest) THEN ms[1] ELSE rest

(***************************************************************************)
(* Root cause analysis of generate_anomaly_group_report.  names is the     *)
(* list of metric names in column order, counts is metric_anomaly_counts   *)
(* and contribs gives new_row[<metric>_contributors] for every metric.     *)
(***************************************************************************)
\* The loop over metric_anomaly_counts.items(): the largest count seen so
\* far and the metrics that have it, in the order of the dict.
RECURSIVE MostCommonFrom(_, _, _, _, _)
MostCommonFrom(names, counts, k, max_count, most_common_metrics) ==
    IF k > Len(names)
    THEN [max_count |-> max_count, most_common_metrics |-> most_common_metrics]
    ELSE IF counts[names[k]] > max_count
         THEN MostCommonFrom(names, counts, k + 1, counts[names[k]], <<names[k]>>)
         ELSE IF counts[names[k]] = max_count
              THEN MostCommonFrom(names, counts, k + 1, max_count,
                                  Append(most_common_metrics, names[k]))
              ELSE MostCommonFrom(names, counts, k + 1, max_count, most_common_metrics)

MostCommon(names, counts) == MostCommonFrom(names, counts, 1, 0, << >>)

\* most_common_metric: ties are broken by ANOMALY_PRIORITY.
MostCommonMetric(names, counts) ==
    LET most_common_metrics == MostCommon(names, counts).most_common_metrics
    IN  IF Len(most_common_metrics) > 1
        THEN MinByPriority(most_common_metrics)
        ELSE most_common_metrics[1]

funnel_metrics ==
    <<"visitors", "landing_page_viewers", "added_to_cart", "checkout_started",
      "orders", "buyers">>

\* funnel_metrics.index(m) if m in funnel_metrics else -1 (0-based).
FunnelIndex(m) ==
    IF \E k \in 1..Len(funnel_metrics) : funnel_metrics[k] = m
    THEN (CHOOSE k \in 1..Len(funnel_metrics) : funnel_metrics[k] = m) - 1
    ELSE -1

\* metric_anomaly_counts.get(metric, 0)
CountOf(counts, m) == IF m \in DOMAIN counts THEN counts[m] ELSE 0

\* sum(metric_anomaly_counts.get(metric, 0) for metric in upstream_metrics)
RECURSIVE UpstreamAnomalies(_, _)
UpstreamAnomalies(counts, upstream_metrics) ==
    IF upstream_metrics = << >> THEN 0
    ELSE CountOf(counts, upstream_metrics[1])
         + UpstreamAnomalies(counts, Tail(upstream_metrics))

\* max(upstream_counts.items(), key=count)[0]: the first upstream metric of
\* largest count.
RECURSIVE MostCommonUpstream(_, _)
MostCommonUpstream(counts, upstream_metrics) ==
    IF Len(upstream_metrics) = 1 THEN upstream_metrics[1]
    ELSE LET rest == MostCommonUpstream(counts, Tail(upstream_metrics))
         IN  IF CountOf(counts, upstream_metrics[1]) >= CountOf(counts, rest)
             THEN upstream_metrics[1] ELSE rest

\* The parts of the f-string: "<kind> <metric>" followed by the contributors
\* of that metric in parentheses when the row has any.
RootCauseLabel(kind, m, contribs) ==
    [kind         |-> kind,
     metric       |-> m,
     contributors |-> IF m \in DOMAIN contribs THEN contribs[m] ELSE << >>]

RootCause(names, counts, contribs) ==
    LET max_count              == MostCommon(names, counts).max_count
        most_common_metric     == MostCommonMetric(names, counts)
        most_common_metric_idx == FunnelIndex(most_common_metric)
        upstream_metrics       == SubSeq(funnel_metrics, 1, most_common_metric_idx)
    IN  IF /\ most_common_metric_idx > 0
           /\ 2 * UpstreamAnomalies(counts, upstream_metrics) >= max_count
        THEN RootCauseLabel("Funnel effect from",
                            MostCommonUpstream(counts, upstream_metrics), contribs)
        ELSE RootCauseLabel("Direct anomaly in", most_common_metric, contribs)

\* The row of one group: start and end, the sign of its first row, the sum
\* of each metric's anomaly column, the union of each metric's
\* contributors over the rows of the group and the root cause label.
GroupRow(df, gid, ids, signs) ==
    [group_id     |-> gid,
     start_time   |-> GroupStart(df, gid, ids),
     end_time     |-> GroupEnd(df, gid, ids),
     group_sign   |-> signs[SetMin(GroupData(gid, ids))],
     anomaly      |-> [m \in MetricSet |->
                         SetSum(GroupData(gid, ids), [k \in DOMAIN df |-> df[k].anomaly[m]])],
     contributors |-> [m \in MetricSet |->
                         RemoveDuplicates(AllContributors(df, GroupData(gid, ids), m))],
     has_anomaly  |-> 1,
     root_cause   |->
        RootCause(metric_names,
                  [m \in MetricSet |->
                     SetSum(GroupData(gid, ids), [k \in DOMAIN df |-> df[k].anomaly[m]])],
                  [m \in MetricSet |->
                     RemoveDuplicates(AllContributors(df, GroupData(gid, ids), m))])]

\* group_df.sort_values('start_time'): a stable insertion sort.
RECURSIVE InsertByStart(_, _)
InsertByStart(sorted, row) ==
    IF Len(sorted) = 0 THEN <<row>>
    ELSE IF sorted[Len(sorted)].start_time <= row.start_time THEN Append(sorted, row)
    ELSE Append(InsertByStart(SubSeq(sorted, 1, Len(sorted) - 1), row), sorted[Len(sorted)])

RECURSIVE SortByStart(_)
SortByStart(rows) ==
    IF Len(rows) = 0 THEN << >>
    ELSE InsertByStart(SortByStart(SubSeq(rows, 1, Len(rows) - 1)), rows[Len(rows)])

\* The groups 1..current_group that have rows, in group order.
GroupRows(df, n, ids, signs) ==
    LET all  == [g \in 1..n |-> g]
        kept == SelectSeq(all, LAMBDA g : GroupData(g, ids) # {})
    IN  [k \in 1..Len(kept) |-> GroupRow(df, kept[k], ids, signs)]

InitGroup ==
    /\ stage = "start"
    /\ \E cells \in CellSets(GroupHours, MaxAnomalies) :
          \E kind \in [cells -> GroupKinds] :
              anomaly_report = Report(GroupHours, cells, kind)
    /\ group_id = << >> /\ group_sign = << >>
    /\ processed_indices = {} /\ i = 1 /\ current_group = 0
    /\ current_group_members = << >> /\ group_changed = FALSE /\ group_df = << >>
    /\ IdleDetector
    /\ IdleScenario
    /\ IdleAggregator
    /\ IdleRun
    /\ IdleAttributor
    /\ IdleConfig
    /\ IdleRootCause
    /\ IdleLater

\* df = anomaly_report.copy(), the two new columns, and the first pass that
\* records the sign of every anomalous row that has one.
FirstPass ==
    /\ stage = "start"
    /\ group_id' = [k \in 1..Len(anomaly_report) |-> 0]
    /\ group_sign' = [k \in 1..Len(anomaly_report) |->
                        IF anomaly_report[k].has_anomaly = 1
                        THEN RowSign(anomaly_report[k]) ELSE 0]
    /\ stage' = "seed"
    /\ UNCHANGED <<anomaly_report, processed_indices, i, current_group,
                   current_group_members, group_changed, group_df>>
    /\ UNCHANGED <<detVars, scnVars, aggVars, runVars, attVars, cfgVars, rcVars, laterVars>>

\* while i < len(anomaly_indices): an index already processed is passed over.
SkipProcessed ==
    /\ stage = "seed"
    /\ i <= Len(AnomalyIndices(anomaly_report))
    /\ AnomalyIndices(anomaly_report)[i] \in processed_indices
    /\ i' = i + 1
    /\ UNCHANGED <<stage, anomaly_report, group_id, group_sign, processed_indices,
                   current_group, current_group_members, group_changed, group_df>>
    /\ UNCHANGED <<detVars, scnVars, aggVars, runVars, attVars, cfgVars, rcVars, laterVars>>

\* current_sign is None: the row starts no group.
SkipNoSign ==
    /\ stage = "seed"
    /\ i <= Len(AnomalyIndices(anomaly_report))
    /\ AnomalyIndices(anomaly_report)[i] \notin processed_indices
    /\ RowSign(anomaly_report[AnomalyIndices(anomaly_report)[i]]) = 0
    /\ i' = i + 1
    /\ UNCHANGED <<stage, anomaly_report, group_id, group_sign, processed_indices,
                   current_group, current_group_members, group_changed, group_df>>
    /\ UNCHANGED <<detVars, scnVars, aggVars, runVars, attVars, cfgVars, rcVars, laterVars>>

\* group_changed = True without the reset at the top of the pass.
GroupChangedStays(added) == TRUE

\* group_changed at the end of a pass: reset to False at its top, set to True
\* by every row the pass adds.
GroupChangedAfter(added) == added # {}

\* Start a new group from the row at i.
StartGroup ==
    /\ stage = "seed"
    /\ i <= Len(AnomalyIndices(anomaly_report))
    /\ LET current_idx  == AnomalyIndices(anomaly_report)[i]
           current_sign == RowSign(anomaly_report[current_idx])
       IN  /\ current_idx \notin processed_indices
           /\ current_sign # 0
           /\ current_group' = current_group + 1
           /\ group_id' = [group_id EXCEPT ![current_idx] = current_group + 1]
           /\ group_sign' = [group_sign EXCEPT ![current_idx] = current_sign]
           /\ processed_indices' = processed_indices \cup {current_idx}
           /\ current_group_members' = <<current_idx>>
    /\ group_changed' = TRUE
    /\ stage' = "absorb"
    /\ UNCHANGED <<anomaly_report, i, group_df>>
    /\ UNCHANGED <<detVars, scnVars, aggVars, runVars, attVars, cfgVars, rcVars, laterVars>>

\* while group_changed: one pass over all anomaly indices.
AbsorbPass ==
    /\ stage = "absorb"
    /\ group_changed
    /\ LET current_sign == RowSign(anomaly_report[current_group_members[1]])
           members == AbsorbFrom(anomaly_report, AnomalyIndices(anomaly_report), 1,
                                 current_group_members, processed_indices, current_sign)
           added   == Range(members) \ Range(current_group_members)
       IN  /\ current_group_members' = members
           /\ processed_indices' = processed_indices \cup added
           /\ group_id' = [k \in DOMAIN group_id |->
                              IF k \in added THEN current_group ELSE group_id[k]]
           /\ group_sign' = [k \in DOMAIN group_sign |->
                              IF k \in added THEN current_sign ELSE group_sign[k]]
           /\ group_changed' = GroupChangedAfter(added)
    /\ UNCHANGED <<stage, anomaly_report, i, current_group, group_df>>
    /\ UNCHANGED <<detVars, scnVars, aggVars, runVars, attVars, cfgVars, rcVars, laterVars>>

\* The pass added nothing: the group is closed, i += 1.
EndGroup ==
    /\ stage = "absorb"
    /\ ~group_changed
    /\ i' = i + 1
    /\ stage' = "seed"
    /\ UNCHANGED <<anomaly_report, group_id, group_sign, processed_indices,
                   current_group, current_group_members, group_changed, group_df>>
    /\ UNCHANGED <<detVars, scnVars, aggVars, runVars, attVars, cfgVars, rcVars, laterVars>>

\* The outer loop is over: one row per group, sorted by start_time.
BuildGroupReport ==
    /\ stage = "seed"
    /\ i > Len(AnomalyIndices(anomaly_report))
    /\ group_df' = SortByStart(GroupRows(anomaly_report, current_group, group_id, group_sign))
    /\ stage' = "grouped"
    /\ UNCHANGED <<anomaly_report, group_id, group_sign, processed_indices, i,
                   current_group, current_group_members, group_changed>>
    /\ UNCHANGED <<detVars, scnVars, aggVars, runVars, attVars, cfgVars, rcVars, laterVars>>

generate_anomaly_group_report ==
    \/ FirstPass
    \/ SkipProcessed
    \/ SkipNoSign
    \/ StartGroup
    \/ AbsorbPass
    \/ EndGroup
    \/ BuildGroupReport

NextGroup == generate_anomaly_group_report

SpecGroup == InitGroup /\ [][NextGroup]_vars

(***************************************************************************)
(* analyze_anomaly_scenarios                                               *)
(***************************************************************************)
\* The metrics whose <metric>_anomaly column is > 0 in the row, in column order.
HourMetrics(hour_row) == SelectSeq(metric_names, LAMBDA m : hour_row.anomaly[m] > 0)

\* group_hours: the rows of the report with start_time <= ds <= end_time.
GroupHoursOf(report, row) ==
    SelectSeq([k \in 1..Len(report) |-> k],
              LAMBDA k : report[k].ds >= row.start_time /\ report[k].ds <= row.end_time)

\* group_anomalies: for each hour of the span that has an anomalous metric,
\* its highest priority metric and that metric's contributors.
GroupAnomalies(report, row) ==
    LET hours == SelectSeq(GroupHoursOf(report, row),
                           LAMBDA k : Len(HourMetrics(report[k])) > 0)
    IN  [n \in 1..Len(hours) |->
            LET metric == MinByPriority(HourMetrics(report[hours[n]]))
            IN  [hour         |-> report[hours[n]].ds,
                 metric       |-> metric,
                 contributors |-> report[hours[n]].contributors[metric]]]

\* metric_contributors_by_hour: per metric, the non-empty contributor lists
\* of the hours where it is the highest priority metric.
MetricContributorsByHour(group_anomalies) ==
    LET withContribs == SelectSeq(group_anomalies, LAMBDA a : a.contributors # {})
        keys == {withContribs[n].metric : n \in 1..Len(withContribs)}
    IN  [m \in keys |->
            LET mine == SelectSeq(withContribs, LAMBDA a : a.metric = m)
            IN  [n \in 1..Len(mine) |-> mine[n].contributors]]

\* get_consistent_contributors: count >= total_hours * 0.5
ConsistentContributors(by_hour) ==
    [m \in DOMAIN by_hour |->
        LET hourly == by_hour[m]
            all    == UNION {hourly[n] : n \in 1..Len(hourly)}
        IN  {c \in all :
                2 * Cardinality({n \in 1..Len(hourly) : c \in hourly[n]}) >= Len(hourly)}]

\* Every contributor that is consistent for some metric.
SharedContributorsOfAny(consistent) ==
    UNION {consistent[m] : m \in DOMAIN consistent}

\* The union of the pairwise intersections of the consistent sets.
SharedContributors(consistent) ==
    UNION {consistent[m1] \cap consistent[m2] :
              <<m1, m2>> \in {p \in (DOMAIN consistent) \X (DOMAIN consistent) : p[1] # p[2]}}

\* if is_single_hour or len(unique_metrics) == 1
IsTrivial(is_single_hour, unique_metrics) ==
    is_single_hour \/ Cardinality(unique_metrics) = 1

\* The list a group row goes to and the entry appended to it; "-" when the
\* span holds no anomaly (the row is skipped).
Classify(report, row) ==
    LET group_anomalies == GroupAnomalies(report, row)
        by_hour         == MetricContributorsByHour(group_anomalies)
        is_single_hour  == row.start_time = row.end_time
        unique_metrics  == {group_anomalies[n].metric : n \in 1..Len(group_anomalies)}
        consistent      == ConsistentContributors(by_hour)
        shared          == SharedContributors(consistent)
        base            == [start_time |-> row.start_time, end_time |-> row.end_time,
                            sign |-> IF row.group_sign > 0 THEN "Positive" ELSE "Negative",
                            metrics |-> unique_metrics]
    IN  IF Len(group_anomalies) = 0 THEN [list |-> "-", entry |-> base]
        ELSE IF IsTrivial(is_single_hour, unique_metrics)
        THEN LET metric == CHOOSE m \in unique_metrics : TRUE
             IN  [list  |-> "D",
                  entry |-> [start_time |-> base.start_time, end_time |-> base.end_time,
                             sign |-> base.sign, metrics |-> base.metrics,
                             contributors |-> IF metric \in DOMAIN by_hour
                                              THEN by_hour[metric][1] ELSE {},
                             is_single_hour |-> is_single_hour]]
        ELSE IF \A m \in DOMAIN consistent : consistent[m] = {}
        THEN [list |-> "C", entry |-> base]
        ELSE IF shared # {}
        THEN [list  |-> "A",
              entry |-> [start_time |-> base.start_time, end_time |-> base.end_time,
                         sign |-> base.sign, metrics |-> base.metrics,
                         shared_contributors |-> shared,
                         all_contributors |-> consistent]]
        ELSE [list  |-> "B",
              entry |-> [start_time |-> base.start_time, end_time |-> base.end_time,
                         sign |-> base.sign, metrics |-> base.metrics,
                         metric_contributors |-> consistent]]

\* for idx, row in group_report.iterrows(): append to the list of the row.
RECURSIVE ClassifyAll(_, _, _, _)
ClassifyAll(report, groups, k, acc) ==
    IF k > Len(groups) THEN acc
    ELSE LET c == Classify(report, groups[k])
         IN  ClassifyAll(report, groups, k + 1,
               IF c.list = "-" THEN acc
               ELSE [acc EXCEPT ![c.list] = Append(acc[c.list], c.entry)])

ScenarioKinds ==
    { [percent_diff |-> Pos, contributors |-> {}],
      [percent_diff |-> Pos, contributors |-> {"US"}],
      [percent_diff |-> Pos, contributors |-> {"UK"}],
      [percent_diff |-> Neg, contributors |-> {}],
      [percent_diff |-> NaN, contributors |-> {}] }

InitScenario ==
    /\ stage = "start"
    /\ \E cells \in CellSets(ScenarioHours, MaxScenarioAnomalies) :
          \E kind \in [cells -> ScenarioKinds] :
              anomaly_report = Report(ScenarioHours, cells, kind)
    /\ group_id = << >> /\ group_sign = << >>
    /\ processed_indices = {} /\ i = 1 /\ current_group = 0
    /\ current_group_members = << >> /\ group_changed = FALSE /\ group_df = << >>
    /\ IdleDetector
    /\ IdleScenario
    /\ IdleAggregator
    /\ IdleRun
    /\ IdleAttributor
    /\ IdleConfig
    /\ IdleRootCause
    /\ IdleLater

analyze_anomaly_scenarios ==
    /\ stage = "grouped"
    /\ scenarios' = ClassifyAll(anomaly_report, group_df, 1, NoScenarios)
    /\ stage' = "classified"
    /\ UNCHANGED <<detVars, grpVars, aggVars, runVars, attVars, cfgVars, rcVars, laterVars>>

NextScenario ==
    \/ generate_anomaly_group_report
    \/ analyze_anomaly_scenarios

SpecScenario == InitScenario /\ [][NextScenario]_vars

(***************************************************************************)
(* Aggregation of the raw events into hourly tables (the polars cells at   *)
(* the top of blotOutAnalysis.py).  Timestamps are minutes since the start *)
(* of the analysis window; NULL is the polars null.                        *)
(***************************************************************************)
NULL == "<null>"

Sessions == {"s1", "s2"}

Countries == {"United States", "France", NULL}

OsNames == {"iOS", "Android"}

UtmSources == {"google", "bing"}

\* One timestamp inside each hour of the window, none of them on the hour
\* except the first.
Timestamps == {60 * h + 7 * h : h \in 0..(WindowHours - 1)}

\* The hours date_range(start_date, end_date, freq='H') lists.
all_hours == {60 * h : h \in 0..(WindowHours - 1)}

\* The rows the input frame is made of: every combination of session, hour,
\* country and os for a google event, and the other utm_source on a iOS
\* event of the United States.
Events ==
    {e \in [session_id : Sessions, event_datetime : Timestamps,
             country_name : Countries, os_name : OsNames,
             search_utm_source : UtmSources] :
        \/ e.search_utm_source = "google"
        \/ e.country_name = "United States" /\ e.os_name = "iOS"}

RECURSIVE SeqsUpTo(_, _)
SeqsUpTo(S, n) ==
    IF n = 0 THEN {<< >>}
    ELSE LET shorter == SeqsUpTo(S, n - 1)
         IN  shorter \cup {Append(q, x) : q \in {r \in shorter : Len(r) = n - 1}, x \in S}

\* dt.truncate("1h")
Truncate1h(t) == (t \div 60) * 60

configure_geography_NoOther(country_name) ==
    IF country_name = "United States" THEN "US"
    ELSE IF country_name = "United Kingdom" THEN "UK"
    ELSE IF country_name = "Canada" THEN "Canada"
    ELSE IF country_name = "Germany" THEN "Germany"
    ELSE IF country_name = "Australia" THEN "Australia"
    ELSE "Unknown Location"

configure_geography(country_name) ==
    IF country_name = "United States" THEN "US"
    ELSE IF country_name = "United Kingdom" THEN "UK"
    ELSE IF country_name = "Canada" THEN "Canada"
    ELSE IF country_name = "Germany" THEN "Germany"
    ELSE IF country_name = "Australia" THEN "Australia"
    ELSE IF country_name # NULL THEN "Other"
    ELSE "Unknown Location"

\* device = os_name cast to Utf8: the cast changes no string and keeps null.
configure_user_agent(os_name) == os_name

\* df after configure_geography and configure_user_agent, as a sequence of
\* rows that carry the two new columns.
Configured(frame) ==
    [n \in 1..Len(frame) |->
        [session_id |-> frame[n].session_id,
         event_datetime |-> frame[n].event_datetime,
         geography |-> configure_geography(frame[n].country_name),
         device |-> configure_user_agent(frame[n].os_name),
         time_truncated |-> Truncate1h(frame[n].event_datetime)]]

SessionsOf(frame) == {frame[n].session_id : n \in 1..Len(frame)}

\* df.unique(subset=['session_id']) keeps one row per session and does not
\* say which: keep maps each session to the index of the row that stays.
UniqueChoices(frame) ==
    {keep \in [SessionsOf(frame) -> 1..Len(frame)] :
        \A s \in SessionsOf(frame) : frame[keep[s]].session_id = s}

RECURSIVE SumCols(_, _)
SumCols(row, cols) ==
    IF cols = {} THEN 0
    ELSE LET c == CHOOSE x \in cols : TRUE
         IN  row[c] + SumCols(row, cols \ {c})

\* group_by(time_truncated, col).agg(count).pivot(index=time_truncated,
\* columns=col).fill_null(0): one row per hour that has a row in the input,
\* one column per value of col in the input.
Pivot(rows, col) ==
    [h \in {e.time_truncated : e \in rows} |->
        [v \in {e[col] : e \in rows} |->
            Cardinality({e \in rows : e.time_truncated = h /\ e[col] = v})]]

expected_geo_cols == {"Other", "US", "Canada", "Germany", "Australia", "UK"}

\* The pivot, the expected columns added with 0 where missing, and the
\* final select, which keeps the six expected columns only.
GeographyTable(rows) ==
    LET pivot == Pivot(rows, "geography")
        ensured == [h \in DOMAIN pivot |->
                       [c \in (DOMAIN pivot[h]) \cup expected_geo_cols |->
                           IF c \in DOMAIN pivot[h] THEN pivot[h][c] ELSE 0]]
    IN  [h \in DOMAIN ensured |-> [c \in expected_geo_cols |-> ensured[h][c]]]

\* The pivot with Total = sum_horizontal(all value columns).
TableWithTotal(rows, col) ==
    LET pivot == Pivot(rows, col)
    IN  [h \in DOMAIN pivot |->
            ("Total" :> SumCols(pivot[h], DOMAIN pivot[h])) @@ pivot[h]]

\* First index of a row of session s.
FirstIndex(frame, s) ==
    CHOOSE n \in 1..Len(frame) :
        /\ frame[n].session_id = s
        /\ \A k \in 1..(n - 1) : frame[k].session_id # s

\* group_by('session_id').agg(min event_datetime, first utm_source)
\* followed by drop_nulls().
unique_sessions(frame) ==
    LET grouped == {[session_id |-> s,
                     session_start |-> SetMin({frame[n].event_datetime :
                                         n \in {k \in 1..Len(frame) : frame[k].session_id = s}}),
                     utm_source |-> frame[FirstIndex(frame, s)].search_utm_source] :
                    s \in SessionsOf(frame)}
    IN  {r \in grouped : r.utm_source # NULL}

main_utm_sources == {"google", "Klaviyo", "tiktok"}

SessionsBySource(frame) ==
    LET sessions_by_time ==
            {[session_id |-> r.session_id,
              utm_source |-> r.utm_source,
              time_truncated |-> Truncate1h(r.session_start)] :
             r \in {u \in unique_sessions(frame) : u.utm_source \in main_utm_sources}}
    IN  TableWithTotal(sessions_by_time, "utm_source")

InitAggregator ==
    /\ stage = "raw"
    /\ events_df \in SeqsUpTo(Events, MaxEvents)
    /\ visitors = {}
    /\ visitors_by_geography = << >>
    /\ visitors_by_device = << >>
    /\ sessions_by_source = << >>
    /\ IdleDetector
    /\ IdleGroup
    /\ IdleScenario
    /\ IdleRun
    /\ IdleAttributor
    /\ IdleConfig
    /\ IdleRootCause
    /\ IdleLater

\* df = configure_geography(df); df = configure_user_agent(df);
\* visitors = df.unique(subset=['session_id'])
ExtractVisitors ==
    /\ stage = "raw"
    /\ \E keep \in UniqueChoices(events_df) :
          visitors' = {Configured(events_df)[keep[s]] : s \in SessionsOf(events_df)}
    /\ stage' = "extracted"
    /\ UNCHANGED <<events_df, visitors_by_geography, visitors_by_device, sessions_by_source>>
    /\ UNCHANGED <<detVars, grpVars, scnVars, runVars, attVars, cfgVars, rcVars, laterVars>>

AggregateGeography ==
    /\ stage = "extracted"
    /\ visitors_by_geography' = GeographyTable(visitors)
    /\ stage' = "geography"
    /\ UNCHANGED <<events_df, visitors, visitors_by_device, sessions_by_source>>
    /\ UNCHANGED <<detVars, grpVars, scnVars, runVars, attVars, cfgVars, rcVars, laterVars>>

AggregateDevice ==
    /\ stage = "geography"
    /\ visitors_by_device' = TableWithTotal(visitors, "device")
    /\ stage' = "device"
    /\ UNCHANGED <<events_df, visitors, visitors_by_geography, sessions_by_source>>
    /\ UNCHANGED <<detVars, grpVars, scnVars, runVars, attVars, cfgVars, rcVars, laterVars>>

AggregateSessions ==
    /\ stage = "device"
    /\ sessions_by_source' = SessionsBySource(events_df)
    /\ stage' = "aggregated"
    /\ UNCHANGED <<events_df, visitors, visitors_by_geography, visitors_by_device>>
    /\ UNCHANGED <<detVars, grpVars, scnVars, runVars, attVars, cfgVars, rcVars, laterVars>>

NextAggregator ==
    \/ ExtractVisitors
    \/ AggregateGeography
    \/ AggregateDevice
    \/ AggregateSessions

SpecAggregator == InitAggregator /\ [][NextAggregator]_vars

(***************************************************************************)
(* The run of the forecast fits: the top-level prophet_model calls, the    *)
(* anomaly_percents calls (one fit per geography column) and               *)
(* generate_anomaly_report.  Prophet's fit is outside the repository: the  *)
(* fits on which it raises are an input of the run.                        *)
(***************************************************************************)
run_metrics == <<"visitors", "orders", "buyers">>

geo_list == <<"Other", "US", "Canada", "Germany", "Australia", "UK">>

\* The fits one run makes: (metric, column).
Fits ==
    {<<run_metrics[m], "Total">> : m \in 1..Len(run_metrics)}
        \cup {<<run_metrics[m], geo_list[g]>> : m \in 1..Len(run_metrics), g \in 1..Len(geo_list)}

RECURSIVE SubsetsUpTo(_, _)
SubsetsUpTo(S, k) ==
    IF k = 0 THEN {{}}
    ELSE LET smaller == SubsetsUpTo(S, k - 1)
         IN  smaller \cup {T \cup {x} : T \in smaller, x \in S}

\* m.fit(subset) raises inside prophet_model(frame of metric, column).
FitRaises(metric, column) == <<metric, column>> \in fit_fails

InitRun ==
    /\ stage = "top_level"
    /\ fit_fails \in SubsetsUpTo(Fits, MaxFailures)
    /\ call = 1
    /\ top_level = {}
    /\ contributions = {}
    /\ reported = {}
    /\ IdleDetector
    /\ IdleGroup
    /\ IdleScenario
    /\ IdleAggregator
    /\ IdleAttributor
    /\ IdleConfig
    /\ IdleRootCause
    /\ IdleLater

\* <metric>_top_level = prophet_model(<metric>, 'Total'), a statement of the
\* script: an exception it raises ends the script.
TopLevelFit ==
    /\ stage = "top_level"
    /\ IF FitRaises(run_metrics[call], "Total")
       THEN /\ stage' = "aborted"
            /\ UNCHANGED <<call, top_level>>
       ELSE /\ top_level' = top_level \cup {run_metrics[call]}
            /\ call' = IF call = Len(run_metrics) THEN 1 ELSE call + 1
            /\ stage' = IF call = Len(run_metrics) THEN "contributions" ELSE "top_level"
    /\ UNCHANGED <<fit_fails, contributions, reported>>
    /\ UNCHANGED <<detVars, grpVars, scnVars, aggVars, attVars, cfgVars, rcVars, laterVars>>

\* <metric>_contributions = anomaly_percents(<metric>_top_level,
\* <metric>_by_geography, geo_list): one fit per column of geo_list, none of
\* them inside a try.
anomaly_percents ==
    /\ stage = "contributions"
    /\ IF \E g \in 1..Len(geo_list) : FitRaises(run_metrics[call], geo_list[g])
       THEN /\ stage' = "aborted"
            /\ UNCHANGED <<call, contributions>>
       ELSE /\ contributions' = contributions \cup {run_metrics[call]}
            /\ call' = IF call = Len(run_metrics) THEN 1 ELSE call + 1
            /\ stage' = IF call = Len(run_metrics) THEN "report" ELSE "contributions"
    /\ UNCHANGED <<fit_fails, top_level, reported>>
    /\ UNCHANGED <<detVars, grpVars, scnVars, aggVars, attVars, cfgVars, rcVars, laterVars>>

\* generate_anomaly_report reads the frames the fits left behind; its
\* try/except is around the handling of one metric's frames.
generate_anomaly_report ==
    /\ stage = "report"
    /\ reported' = top_level
    /\ stage' = "reported"
    /\ UNCHANGED <<fit_fails, call, top_level, contributions>>
    /\ UNCHANGED <<detVars, grpVars, scnVars, aggVars, attVars, cfgVars, rcVars, laterVars>>

NextRun ==
    \/ TopLevelFit
    \/ anomaly_percents
    \/ generate_anomaly_report

SpecRun == InitRun /\ [][NextRun]_vars

\* The rows of group g, and the hours reachable from the rows S by steps of at
\* most 3 hours that stay inside `members`.
Members(g) == GroupData(g, group_id)

RECURSIVE Reach(_, _)
Reach(S, members) ==
    LET next == S \cup {k \in members :
                           \E m \in S : Abs(anomaly_report[k].ds - anomaly_report[m].ds) <= 3}
    IN  IF next = S THEN S ELSE Reach(next, members)

\* Same-sign anomalies at 08:00, 09:00 and 13:00 and nowhere else: the rows
\* of ds 0, 1 and 5.
IsExampleReport ==
    /\ {k \in 1..Len(anomaly_report) : anomaly_report[k].has_anomaly = 1} = {1, 2, 6}
    /\ RowSign(anomaly_report[1]) # 0
    /\ RowSign(anomaly_report[2]) = RowSign(anomaly_report[1])
    /\ RowSign(anomaly_report[6]) = RowSign(anomaly_report[1])

(***************************************************************************)
(* C3: any two hours of one episode (same group_id) are linked by a chain  *)
(* of anomalous hours of that episode, all of the episode's sign, whose    *)
(* consecutive hours are at most 3 hours apart; same-sign anomalies at     *)
(* 08:00, 09:00 and 13:00 give the two episodes {08:00, 09:00}, {13:00}.   *)
(***************************************************************************)
C3_EpisodeIsChained ==
    stage = "grouped" =>
        /\ \A g \in 1..current_group :
              \A a \in Members(g) :
                  /\ anomaly_report[a].has_anomaly = 1
                  /\ RowSign(anomaly_report[a]) = group_sign[a]
                  /\ \A b \in Members(g) : group_sign[b] = group_sign[a]
                  /\ Reach({a}, Members(g)) = Members(g)
        /\ IsExampleReport =>
              /\ Len(group_df) = 2
              /\ Members(group_df[1].group_id) = {1, 2}
              /\ Members(group_df[2].group_id) = {6}

C3_Witness ==
    /\ stage = "grouped"
    /\ IsExampleReport
    /\ Len(group_df) = 2
    /\ \E g \in 1..current_group :
          \E a, b \in Members(g) : a # b /\ b \in Reach({a}, Members(g))

(***************************************************************************)
(* C4: episodes are maximal.  When the grouping is over, no anomalous hour *)
(* outside an episode has the episode's sign and lies within 3 hours of a  *)
(* member of it (absorption is transitive: it reaches hours more than 3    *)
(* hours from the seed).                                                   *)
(***************************************************************************)
C4_EpisodeIsMaximal ==
    stage = "grouped" =>
        \A e \in 1..Len(group_df) :
            \A h \in 1..Len(anomaly_report) :
                (anomaly_report[h].has_anomaly = 1 /\ group_id[h] # group_df[e].group_id) =>
                    ~ /\ RowSign(anomaly_report[h]) = group_df[e].group_sign
                      /\ \E m \in Members(group_df[e].group_id) :
                            Abs(anomaly_report[h].ds - anomaly_report[m].ds) <= 3

C4_Witness ==
    /\ stage = "grouped"
    /\ \E g \in 1..current_group :
          \E m \in Members(g) :
              anomaly_report[m].ds - anomaly_report[SetMin(Members(g))].ds > 3

(***************************************************************************)
(* C5 (as amended): no two distinct episodes of the same sign overlap in   *)
(* hours: their start_time..end_time spans are disjoint.  Episodes of      *)
(* opposite sign may interleave.                                           *)
(***************************************************************************)
SpansOverlap(e1, e2) == e1.start_time <= e2.end_time /\ e2.start_time <= e1.end_time

C5_SameSignSpansDisjoint ==
    stage = "grouped" =>
        \A x, y \in 1..Len(group_df) :
            (x # y /\ group_df[x].group_sign = group_df[y].group_sign) =>
                ~SpansOverlap(group_df[x], group_df[y])

\* C5 as stated: no hour lies in the span of more than one episode.
C5_NoSpansOverlap ==
    stage = "grouped" =>
        \A x, y \in 1..Len(group_df) :
            x # y => ~SpansOverlap(group_df[x], group_df[y])

C5_Witness ==
    /\ stage = "grouped"
    /\ \E x, y \in 1..Len(group_df) :
          /\ x # y
          /\ group_df[x].group_sign = group_df[y].group_sign
          /\ group_df[x].start_time < group_df[x].end_time
          /\ group_df[x].end_time < group_df[y].start_time

(***************************************************************************)
(* C6: analyze_anomaly_scenarios places every episode that spans more than *)
(* one hour and involves more than one anomalous metric in exactly one of  *)
(* the lists A, B, C (and not in D), and every episode that spans a single *)
(* hour or involves a single metric in D and in no other list.             *)
(***************************************************************************)
\* How many entries of list L stand for episode e.
EntriesOf(L, e) ==
    Cardinality({n \in 1..Len(scenarios[L]) :
                    /\ scenarios[L][n].start_time = e.start_time
                    /\ scenarios[L][n].end_time = e.end_time})

\* The metrics that have an anomaly in a member hour of the episode.
InvolvedMetrics(e) == {m \in MetricSet : e.anomaly[m] > 0}

C6_ScenarioExhaustive ==
    stage = "classified" =>
        \A x \in 1..Len(group_df) :
            LET e == group_df[x]
            IN  IF e.start_time # e.end_time /\ Cardinality(InvolvedMetrics(e)) > 1
                THEN /\ EntriesOf("A", e) + EntriesOf("B", e) + EntriesOf("C", e) = 1
                     /\ EntriesOf("D", e) = 0
                ELSE /\ EntriesOf("D", e) = 1
                     /\ EntriesOf("A", e) + EntriesOf("B", e) + EntriesOf("C", e) = 0

(***************************************************************************)
(* C7: the aggregated hourly series of a metric has exactly one entry for  *)
(* each hour of the analysis window, hours without events appearing with   *)
(* count 0: a window of H hours yields a series of length H.  Stated for   *)
(* the inputs that have an event in the first and in the last hour of the  *)
(* window, so that the window is not in question.                          *)
(***************************************************************************)
C7_OneEntryPerHour ==
    (/\ stage = "aggregated"
     /\ \E n \in 1..Len(events_df) : Truncate1h(events_df[n].event_datetime) = SetMin(all_hours)
     /\ \E n \in 1..Len(events_df) : Truncate1h(events_df[n].event_datetime) = SetMax(all_hours)) =>
        /\ DOMAIN visitors_by_device = all_hours
        /\ DOMAIN visitors_by_geography = all_hours

\* The number of visitors rows of hour h.
VisitorsAt(h) == Cardinality({e \in visitors : e.time_truncated = h})

(***************************************************************************)
(* C8: at every hour the counts of the dimension values of one dimension   *)
(* type sum to the metric's total count at that hour (the Total of the     *)
(* device table, which is the series the top-level fit reads), provided no *)
(* event has a null dimension value.                                       *)
(***************************************************************************)
C8_DimensionCountsSumToTotal ==
    (stage = "aggregated" /\ \A n \in 1..Len(events_df) : events_df[n].country_name # NULL) =>
        /\ DOMAIN visitors_by_geography = DOMAIN visitors_by_device
        /\ \A h \in DOMAIN visitors_by_device :
              /\ SumCols(visitors_by_geography[h], expected_geo_cols)
                    = visitors_by_device[h]["Total"]
              /\ SumCols(visitors_by_device[h], (DOMAIN visitors_by_device[h]) \ {"Total"})
                    = visitors_by_device[h]["Total"]
              /\ visitors_by_device[h]["Total"] = VisitorsAt(h)

C8_Witness ==
    /\ stage = "aggregated"
    /\ \A n \in 1..Len(events_df) : events_df[n].country_name # NULL
    /\ \E h \in DOMAIN visitors_by_geography :
          /\ visitors_by_geography[h]["Other"] = 1
          /\ visitors_by_geography[h]["US"] = 1
          /\ visitors_by_device[h]["Total"] = 2

\* The sessions unique_sessions would list at hour h if it dropped none.
SessionsStartingAt(h) ==
    Cardinality({s \in SessionsOf(events_df) :
        Truncate1h(SetMin({events_df[n].event_datetime :
            n \in {k \in 1..Len(events_df) : events_df[k].session_id = s}})) = h})

(***************************************************************************)
(* C9: events whose dimension value is not a recognised one are counted in *)
(* an Other/Unknown bucket of the dimension series and never left out:     *)
(* every visitor of an hour is counted in a column of the geography table  *)
(* and of the device table, every session of an hour in a column of the    *)
(* utm_source table.                                                       *)
(***************************************************************************)
C9_UnmappedValuesAreCounted ==
    stage = "aggregated" =>
        /\ \A h \in {e.time_truncated : e \in visitors} :
              /\ h \in DOMAIN visitors_by_geography
              /\ SumCols(visitors_by_geography[h], DOMAIN visitors_by_geography[h])
                    = VisitorsAt(h)
              /\ h \in DOMAIN visitors_by_device
              /\ SumCols(visitors_by_device[h], (DOMAIN visitors_by_device[h]) \ {"Total"})
                    = VisitorsAt(h)
        /\ \A h \in all_hours :
              SessionsStartingAt(h) > 0 =>
                  /\ h \in DOMAIN sessions_by_source
                  /\ SumCols(sessions_by_source[h], (DOMAIN sessions_by_source[h]) \ {"Total"})
                        = SessionsStartingAt(h)

(***************************************************************************)
(* C10: a forecast fit that fails for one metric or one dimension value    *)
(* does not abort the run: the run reaches generate_anomaly_report, and    *)
(* every metric none of whose fits failed is reported.                     *)
(***************************************************************************)
C10_FailedFitDoesNotAbort ==
    /\ stage # "aborted"
    /\ stage = "reported" =>
          \A m \in 1..Len(run_metrics) :
              (\A f \in fit_fails : f[1] # run_metrics[m]) => run_metrics[m] \in reported

(***************************************************************************)
(* find_maximum_contributors: the contributors of one hour.  Deviations    *)
(* are whole percents; DBSCAN with min_samples = 1 on one column puts two  *)
(* values in one cluster exactly when a chain of values links them whose   *)
(* consecutive distances are at most the radius eps * 0.5.                 *)
(***************************************************************************)
MaxCols == 3   \* columns of the percent-diff frame
MaxGroupCount == 2   \* anomalies of one metric in one episode
MaxAnomalousHours == 2   \* anomalous hours of the metric whose attributions are merged
SignHours == 2   \* hours of the reports whose quiet cells hold any percent_diff
WeightRows == 2   \* rows of the frame given to determine_anomaly_weight
FrameRows == 2   \* rows of the frames passed to a pipeline stage
TableHours == 3  \* hours of the window of the two per-hour anomaly tables
LoopHours == 5   \* hours of the report whose grouping is followed to its end
MaxLoopAnomalies == 2  \* anomalous (hour, metric) cells of that report

\* df.columns, in the order of geo_list.
attr_columns ==
    <<"percent_diff US", "percent_diff UK", "percent_diff Canada",
      "percent_diff Germany", "percent_diff Australia", "percent_diff Other">>

DevValues == {-95, -5, 0, 4, 5, 95}

EpsValues == {1, 2, 20, 179, 180}

\* |a - b| <= eps (the radius without the factor 0.5)
WithinRadiusFullEps(a, b, e) == Abs(a - b) <= e

\* |a - b| <= eps * 0.5
WithinRadius(a, b, e) == 2 * Abs(a - b) <= e

\* The indices DBSCAN puts in one cluster with the indices S.
RECURSIVE Component(_, _, _)
Component(S, abs_values, e) ==
    LET next == S \cup {k \in DOMAIN abs_values :
                           \E m \in S : WithinRadius(abs_values[k], abs_values[m], e)}
    IN  IF next = S THEN S ELSE Component(next, abs_values, e)

\* db.labels_: one label per index, the same for the indices of a cluster.
Labels(abs_values, e) ==
    [k \in DOMAIN abs_values |-> SetMin(Component({k}, abs_values, e))]

\* max(np.abs(clusters[k]))
ClusterMax(labels, abs_values, label) ==
    SetMax({abs_values[k] : k \in {n \in DOMAIN labels : labels[n] = label}})

\* list(sorted_clusters.keys())[0]: the label of the cluster with the
\* largest absolute value.
TopLabel(labels, abs_values) ==
    CHOOSE l \in Range(labels) :
        \A o \in Range(labels) : ClusterMax(labels, abs_values, l) >= ClusterMax(labels, abs_values, o)

SingleClusterNever(labels) == FALSE

\* len(sorted_clusters.keys()) == 1
SingleCluster(labels) == Cardinality(Range(labels)) = 1

\* np.where(reshaped_row == val)[0][0]: the first index that holds val.
FirstColumnOf(row, val) ==
    CHOOSE k \in DOMAIN row : row[k] = val /\ \A n \in 1..(k - 1) : row[n] # val

\* The subsequence of 1..n of the indices in S, in increasing order.
RECURSIVE IndicesInOrder(_, _)
IndicesInOrder(S, n) ==
    IF n = 0 THEN << >>
    ELSE IF n \in S THEN Append(IndicesInOrder(S, n - 1), n)
    ELSE IndicesInOrder(S, n - 1)

\* What find_maximum_contributors(df, index, eps) returns for the row:
\* none is the bare return (None).
FindMaximumContributors(row, e) ==
    LET abs_values == [k \in DOMAIN row |-> Abs(row[k])]
        labels == Labels(abs_values, e)
        top == TopLabel(labels, abs_values)
        max_contributors == IndicesInOrder({k \in DOMAIN row : labels[k] = top}, Len(row))
    IN  IF SingleCluster(labels)
        THEN [none |-> TRUE, columns |-> << >>]
        ELSE [none |-> FALSE,
              columns |-> [n \in 1..Len(max_contributors) |->
                              attr_columns[FirstColumnOf(row, row[max_contributors[n]])]]]

InitAttributor ==
    /\ stage = "row"
    /\ \E n \in 1..MaxCols : row_values \in [1..n -> DevValues]
    /\ eps \in EpsValues
    /\ contributing_columns = << >>
    /\ IdleDetector
    /\ IdleGroup
    /\ IdleScenario
    /\ IdleAggregator
    /\ IdleRun
    /\ IdleConfig
    /\ IdleRootCause
    /\ IdleLater

find_maximum_contributors ==
    /\ stage = "row"
    /\ contributing_columns' = FindMaximumContributors(row_values, eps)
    /\ stage' = "attributed"
    /\ UNCHANGED <<row_values, eps>>
    /\ UNCHANGED <<detVars, grpVars, scnVars, aggVars, runVars, cfgVars, rcVars, laterVars>>

NextAttributor == find_maximum_contributors

SpecAttributor == InitAttributor /\ [][NextAttributor]_vars

\* The row has one column of +95% and, besides it, only columns of +4% and
\* +5%, at least one of them.
IsOutlierRow ==
    /\ Len(row_values) >= 2
    /\ Cardinality({k \in DOMAIN row_values : row_values[k] = 95}) = 1
    /\ \A k \in DOMAIN row_values : row_values[k] \in {4, 5, 95}

(***************************************************************************)
(* C11: for an hour whose deviations are +5%, +4% and +95% (US, UK,        *)
(* Canada), find_maximum_contributors returns exactly the column of the    *)
(* +95% value, for every eps whose radius eps * 0.5 is smaller than the    *)
(* gap 90 between 5% and 95%.                                              *)
(***************************************************************************)
C11_OutlierAloneIsContributor ==
    (stage = "attributed" /\ IsOutlierRow /\ eps < 2 * (95 - 5)) =>
        /\ contributing_columns.none = FALSE
        /\ contributing_columns.columns
              = <<attr_columns[CHOOSE k \in DOMAIN row_values : row_values[k] = 95]>>

C11_Witness ==
    /\ stage = "attributed"
    /\ row_values = <<5, 4, 95>>
    /\ eps = 179
    /\ contributing_columns.columns = <<"percent_diff Canada">>

required_fields == <<"data", "kpis", "mappings", "pivot_configs", "common_configs">>

\* The keys a configuration file may hold, and the values under them.
ConfigKeys == Range(required_fields) \cup {"logging"}

ConfigValues == {"v1", "v2"}

\* The loop over required_fields taken from the last field to the first.
RECURSIVE LastMissingField(_, _)
LastMissingField(cfg, k) ==
    IF k > Len(required_fields) THEN "-"
    ELSE LET later == LastMissingField(cfg, k + 1)
         IN  IF later # "-" THEN later
             ELSE IF required_fields[k] \notin DOMAIN cfg THEN required_fields[k]
             ELSE "-"

\* for field in required_fields: if field not in config: raise ...
\* The field the loop raises on from position k on, "-" when it ends.
RECURSIVE FirstMissingField(_, _)
FirstMissingField(cfg, k) ==
    IF k > Len(required_fields) THEN "-"
    ELSE IF required_fields[k] \notin DOMAIN cfg THEN required_fields[k]
    ELSE FirstMissingField(cfg, k + 1)

\* What load_config does with the parsed configuration: it raises
\* ValueError("Missing required field in config: <field>") or returns config.
LoadConfig(cfg) ==
    LET field == FirstMissingField(cfg, 1)
    IN  IF field # "-"
        THEN [raised |-> "ValueError", field |-> field]
        ELSE [raised |-> "-", value |-> cfg]

InitConfig ==
    /\ stage = "parsed"
    /\ \E keys \in SUBSET ConfigKeys : config \in [keys -> ConfigValues]
    /\ load_result = << >>
    /\ IdleDetector
    /\ IdleGroup
    /\ IdleScenario
    /\ IdleAggregator
    /\ IdleRun
    /\ IdleAttributor
    /\ IdleRootCause
    /\ IdleLater

load_config ==
    /\ stage = "parsed"
    /\ load_result' = LoadConfig(config)
    /\ stage' = "loaded"
    /\ UNCHANGED config
    /\ UNCHANGED <<detVars, grpVars, scnVars, aggVars, runVars, attVars, rcVars, laterVars>>

NextConfig == load_config

SpecConfig == InitConfig /\ [][NextConfig]_vars

(***************************************************************************)
(* C13: load_config raises ValueError naming the first absent field, in    *)
(* the order data, kpis, mappings, pivot_configs, common_configs, when any *)
(* of the five is absent, and returns the parsed configuration unchanged   *)
(* when all five are present.                                              *)
(***************************************************************************)
C13_LoadConfigFailsFast ==
    stage = "loaded" =>
        IF \E k \in 1..Len(required_fields) : required_fields[k] \notin DOMAIN config
        THEN /\ load_result.raised = "ValueError"
             /\ \E k \in 1..Len(required_fields) :
                   /\ load_result.field = required_fields[k]
                   /\ required_fields[k] \notin DOMAIN config
                   /\ \A j \in 1..(k - 1) : required_fields[j] \in DOMAIN config
        ELSE /\ load_result.raised = "-"
             /\ load_result.value = config

C13_Witness ==
    /\ stage = "loaded"
    /\ "data" \in DOMAIN config
    /\ "kpis" \notin DOMAIN config
    /\ "common_configs" \notin DOMAIN config
    /\ load_result.raised = "ValueError"
    /\ load_result.field = "kpis"

\* The rows of the anomaly report from hour lo to hour hi, inclusive.
RowsOfSpan(lo, hi) ==
    {k \in 1..Len(anomaly_report) : lo <= anomaly_report[k].ds /\ anomaly_report[k].ds <= hi}

\* The sum of metric m's anomaly flags over the rows S of the report.
FlagSum(S, m) == SetSum(S, [k \in 1..Len(anomaly_report) |-> anomaly_report[k].anomaly[m]])

(***************************************************************************)
(* C14 (as amended): for each episode and each metric, the episode's       *)
(* anomaly count equals the sum of the metric's per-hour anomaly flags     *)
(* over the hours that are members of the episode (the rows of its         *)
(* group_id).  An hour between start and end that belongs to another       *)
(* episode, or to none, is not counted.                                    *)
(***************************************************************************)
C14_CountIsSumOverMembers ==
    stage = "grouped" =>
        \A x \in 1..Len(group_df) :
            \A m \in MetricSet :
                group_df[x].anomaly[m]
                    = FlagSum({k \in 1..Len(anomaly_report) : group_id[k] = group_df[x].group_id}, m)

\* C14 as stated: the count is the sum over all hours from start to end.
C14_CountIsSumOverSpan ==
    stage = "grouped" =>
        \A x \in 1..Len(group_df) :
            \A m \in MetricSet :
                group_df[x].anomaly[m]
                    = FlagSum(RowsOfSpan(group_df[x].start_time, group_df[x].end_time), m)

C14_Witness ==
    /\ stage = "grouped"
    /\ \E x \in 1..Len(group_df) :
          \E m \in MetricSet :
              /\ group_df[x].anomaly[m] = 2
              /\ \E k \in RowsOfSpan(group_df[x].start_time, group_df[x].end_time) :
                    group_id[k] # group_df[x].group_id /\ anomaly_report[k].anomaly[m] = 1

(***************************************************************************)
(* C15: for each episode and each metric, the episode's contributor list   *)
(* is the duplicate-free union of the metric's per-hour contributor lists  *)
(* over the hours of the episode: every contributor of such an hour        *)
(* appears exactly once and nothing else appears.                          *)
(***************************************************************************)
C15_ContributorsAreUnion ==
    stage = "grouped" =>
        \A x \in 1..Len(group_df) :
            \A m \in MetricSet :
                LET list == group_df[x].contributors[m]
                IN  /\ \A a, b \in 1..Len(list) : a # b => list[a] # list[b]
                    /\ Range(list)
                          = UNION {anomaly_report[k].contributors[m] :
                                      k \in {n \in 1..Len(anomaly_report) :
                                                group_id[n] = group_df[x].group_id}}

C15_Witness ==
    /\ stage = "grouped"
    /\ \E x \in 1..Len(group_df) :
          \E m \in MetricSet :
              /\ group_df[x].contributors[m] = <<"US">>
              /\ Cardinality({k \in 1..Len(anomaly_report) :
                                 /\ group_id[k] = group_df[x].group_id
                                 /\ anomaly_report[k].contributors[m] = {"US"}}) >= 2

(***************************************************************************)
(* The root cause analysis of generate_anomaly_group_report over the       *)
(* metrics of generate_anomaly_report: any counts of one episode (at least *)
(* one anomaly) and any row whose metrics have or lack contributors.       *)
(***************************************************************************)
\* The keys of generate_anomaly_report.metrics, in order: the order of the
\* <metric>_percent_diff columns and so of metric_anomaly_counts.
report_metrics ==
    <<"landing_page_viewers", "visitors", "product_viewers", "added_to_cart",
      "checkout_started", "orders", "buyers", "login", "search">>

ReportMetricSet == {report_metrics[k] : k \in 1..Len(report_metrics)}

\* new_row[<metric>_contributors]: absent or empty for every metric, or the
\* same one-element list for every metric.
RowContributors ==
    { [m \in ReportMetricSet |-> << >>], [m \in ReportMetricSet |-> <<"US">>] }

InitRootCause ==
    /\ stage = "counted"
    /\ metric_anomaly_counts \in [ReportMetricSet -> 0..MaxGroupCount]
    /\ \E m \in ReportMetricSet : metric_anomaly_counts[m] > 0
    /\ row_contributors \in RowContributors
    /\ root_cause = << >>
    /\ IdleDetector
    /\ IdleGroup
    /\ IdleScenario
    /\ IdleAggregator
    /\ IdleRun
    /\ IdleAttributor
    /\ IdleConfig
    /\ IdleLater

RootCauseAnalysis ==
    /\ stage = "counted"
    /\ root_cause' = RootCause(report_metrics, metric_anomaly_counts, row_contributors)
    /\ stage' = "labelled"
    /\ UNCHANGED <<metric_anomaly_counts, row_contributors>>
    /\ UNCHANGED <<detVars, grpVars, scnVars, aggVars, runVars, attVars, cfgVars, laterVars>>

NextRootCause == RootCauseAnalysis

SpecRootCause == InitRootCause /\ [][NextRootCause]_vars

\* The metrics of the episode that have the largest anomaly count.
TiedForMost ==
    {m \in ReportMetricSet :
        \A x \in ReportMetricSet : metric_anomaly_counts[x] <= metric_anomaly_counts[m]}

\* The funnel-priority order of the metrics: landing page, visitors, search,
\* login, added_to_cart, checkout_started, orders, buyers.
funnel_priority_order ==
    <<"landing_page_viewers", "visitors", "search", "login", "added_to_cart",
      "checkout_started", "orders", "buyers">>

PositionIn(order, m) == CHOOSE k \in 1..Len(order) : order[k] = m

InOrder(order, m) == \E k \in 1..Len(order) : order[k] = m

\* C16: the root-cause metric of an episode is a metric with the most
\* anomalies in it, and when several metrics tie for the most, no tied
\* metric comes before it in the funnel-priority order landing page,
\* visitors, search, login, added_to_cart, checkout_started, orders, buyers.
C16_TieGoesToFunnelPriority ==
    stage = "labelled" =>
        LET most_common_metric == MostCommonMetric(report_metrics, metric_anomaly_counts)
        IN  /\ most_common_metric \in TiedForMost
            /\ \A m \in TiedForMost :
                   InOrder(funnel_priority_order, m) =>
                       /\ InOrder(funnel_priority_order, most_common_metric)
                       /\ PositionIn(funnel_priority_order, most_common_metric)
                              <= PositionIn(funnel_priority_order, m)
            /\ root_cause.kind = "Direct anomaly in" =>
                   root_cause.metric = most_common_metric

\* The anomaly count of the whole episode.
TotalAnomalies ==
    SetSum(ReportMetricSet, metric_anomaly_counts)

\* C17: when the root-cause metric is a funnel stage other than the first,
\* the episode is labelled 'Funnel effect from {upstream metric}' exactly
\* when the anomalies of the metrics upstream of it in the funnel amount to
\* at least 50% of the episode's total anomaly count, and 'Direct anomaly in
\* {metric}' otherwise; when it is the first funnel stage the label is
\* always 'Direct anomaly in {metric}'.
C17_FunnelEffectIffHalfOfTotal ==
    stage = "labelled" =>
        LET most_common_metric == MostCommonMetric(report_metrics, metric_anomaly_counts)
            idx      == FunnelIndex(most_common_metric)
            upstream == SubSeq(funnel_metrics, 1, idx)
        IN  /\ idx > 0 =>
                /\ root_cause.kind = "Funnel effect from"
                       <=> 2 * UpstreamAnomalies(metric_anomaly_counts, upstream)
                               >= TotalAnomalies
                /\ root_cause.kind = "Funnel effect from" =>
                       InOrder(upstream, root_cause.metric)
                /\ root_cause.kind = "Direct anomaly in" =>
                       root_cause.metric = most_common_metric
            /\ idx = 0 =>
                /\ root_cause.kind = "Direct anomaly in"
                /\ root_cause.metric = most_common_metric

\* The hours of the episode of an entry: the rows of the report in the hours
\* start_time..end_time that have an anomaly.
HoursOfEntry(e) ==
    {k \in 1..Len(anomaly_report) :
        /\ anomaly_report[k].ds >= e.start_time
        /\ anomaly_report[k].ds <= e.end_time
        /\ anomaly_report[k].has_anomaly = 1}

\* The contributors any metric has in any hour of the report.
ReportContributors ==
    UNION {anomaly_report[k].contributors[m] : k \in 1..Len(anomaly_report), m \in MetricSet}

\* c appears in the contributor list of m in at least 50% of the hours of e.
InHalfOfTheHours(e, m, c) ==
    2 * Cardinality({k \in HoursOfEntry(e) : c \in anomaly_report[k].contributors[m]})
        >= Cardinality(HoursOfEntry(e))

\* The consistent contributors an entry of list L reports for metric m.
ConsistentIn(L, e, m) ==
    LET by_metric == IF L = "A" THEN e.all_contributors
                     ELSE IF L = "B" THEN e.metric_contributors
                     ELSE << >>
    IN  IF m \in DOMAIN by_metric THEN by_metric[m] ELSE {}

\* C18: in analyze_anomaly_scenarios a contributor of a metric is consistent
\* for an episode exactly when it appears in the metric's contributor list
\* in at least 50% of the episode's hours.
C18_ConsistentIffHalfOfEpisodeHours ==
    stage = "classified" =>
        \A L \in {"A", "B", "C"} :
            \A n \in 1..Len(scenarios[L]) :
                \A m \in MetricSet :
                    \A c \in ReportContributors :
                        c \in ConsistentIn(L, scenarios[L][n], m)
                            <=> InHalfOfTheHours(scenarios[L][n], m, c)

\* The consistent contributors analyze_anomaly_scenarios finds for metric m
\* in the episode of group row e.
ConsistentFor(e, m) ==
    LET consistent == ConsistentContributors(
                          MetricContributorsByHour(GroupAnomalies(anomaly_report, e)))
    IN  IF m \in DOMAIN consistent THEN consistent[m] ELSE {}

\* The contributors that are consistent for at least two metrics.
ConsistentForTwo(e) ==
    {c \in ReportContributors :
        Cardinality({m \in MetricSet : c \in ConsistentFor(e, m)}) >= 2}

\* The metrics that are the highest priority metric of some hour of e.
UniqueMetrics(e) ==
    LET group_anomalies == GroupAnomalies(anomaly_report, e)
    IN  {group_anomalies[n].metric : n \in 1..Len(group_anomalies)}

\* The entries of list L that stand for episode e.
EntrySet(L, e) ==
    {n \in 1..Len(scenarios[L]) :
        /\ scenarios[L][n].start_time = e.start_time
        /\ scenarios[L][n].end_time = e.end_time}

AbsValues == {Abs(row_values[k]) : k \in DOMAIN row_values}

\* The sorted absolute values are chained by gaps of at most 0.5 * eps: each
\* value but the smallest is within 0.5 * eps of the next smaller one.
Chained ==
    \A v \in AbsValues :
        LET smaller == {u \in AbsValues : u < v}
        IN  smaller # {} => 2 * (v - SetMax(smaller)) <= eps

\* C20: find_maximum_contributors returns None, without raising, whenever
\* the absolute deviations of the hour form a single cluster, i.e. whenever
\* all sorted absolute values are chained by gaps of at most 0.5 * eps.
C20_SingleClusterReturnsNone ==
    (stage = "attributed" /\ Chained) =>
        contributing_columns = [none |-> TRUE, columns |-> << >>]

C20_Witness ==
    /\ stage = "attributed"
    /\ row_values = <<5, 4, 95>>
    /\ eps = 180
    /\ Chained
    /\ contributing_columns.none = TRUE

\* The columns of the cluster that holds the largest absolute deviation:
\* column k is in it when every gap between consecutive sorted absolute
\* values from its own up to the largest is at most 0.5 * eps.
InLargestCluster(k) ==
    \A v \in AbsValues :
        v > Abs(row_values[k]) =>
            2 * (v - SetMax({u \in AbsValues : u < v})) <= eps

\* C21: when clustering yields two or more clusters, the contributors
\* returned by find_maximum_contributors are exactly the dimension values of
\* the cluster containing the largest absolute deviation, each listed once,
\* including when two dimension values have equal deviations.
C21_ContributorsAreLargestCluster ==
    (stage = "attributed" /\ ~Chained) =>
        /\ contributing_columns.none = FALSE
        /\ Range(contributing_columns.columns)
              = {attr_columns[k] : k \in {n \in DOMAIN row_values : InLargestCluster(n)}}
        /\ \A a, b \in DOMAIN contributing_columns.columns :
               a # b => contributing_columns.columns[a] # contributing_columns.columns[b]

(***************************************************************************)
(* The combined attribution of a metric with two dimension types: the      *)
(* device frame and the geography frame hold one row per anomalous hour of *)
(* the metric, with the Contributors create_contributor_col has found      *)
(* (None or the list of columns); the two are merged with pd.merge.        *)
(***************************************************************************)
None == [none |-> TRUE, columns |-> << >>]

Some(columns) == [none |-> FALSE, columns |-> columns]

\* What find_maximum_contributors may return on a row of the device frame.
DeviceContributors ==
    { None, Some(<<"percent_diff iOS">>), Some(<<"percent_diff Other">>),
      Some(<<"percent_diff iOS", "percent_diff Android">>) }

\* What find_maximum_contributors may return on a row of the geography frame.
GeographyContributors ==
    { None, Some(<<"percent_diff US">>), Some(<<"percent_diff Other">>),
      Some(<<"percent_diff US", "percent_diff UK">>) }

\* create_contributor_col(df).reset_index(): one row per anomalous hour.
ContributorFrames(n, values) ==
    { [h \in 1..n |-> [ds |-> h - 1, Contributors |-> c[h]]] : c \in [1..n -> values] }

\* The ds of a row that has no partner in the other frame.
NaT == 0 - 1

\* pd.merge(left, right, on='Contributors', how='outer'): a row for every
\* pair of rows with equal Contributors (null keys match each other), and a
\* row for every row of either frame that has no partner.
MergeOnContributors(left, right) ==
    LET L == DOMAIN left
        R == DOMAIN right
    IN  {[ds_x |-> left[a].ds, ds_y |-> right[b].ds, Contributors |-> left[a].Contributors] :
            <<a, b>> \in {p \in L \X R : left[p[1]].Contributors = right[p[2]].Contributors}}
        \cup
        {[ds_x |-> left[a].ds, ds_y |-> NaT, Contributors |-> left[a].Contributors] :
            a \in {x \in L : \A b \in R : left[x].Contributors # right[b].Contributors}}
        \cup
        {[ds_x |-> NaT, ds_y |-> right[b].ds, Contributors |-> right[b].Contributors] :
            b \in {y \in R : \A a \in L : left[a].Contributors # right[y].Contributors}}

InitCombine ==
    /\ stage = "attributions"
    /\ \E n \in 1..MaxAnomalousHours :
          /\ visitor_device_contributing_columns \in ContributorFrames(n, DeviceContributors)
          /\ visitor_geography_contributing_columns
                \in ContributorFrames(n, GeographyContributors)
    /\ visitor_contributing_columns = {}
    /\ IdleDetector
    /\ IdleGroup
    /\ IdleScenario
    /\ IdleAggregator
    /\ IdleRun
    /\ IdleAttributor
    /\ IdleConfig
    /\ IdleRootCause
    /\ IdleWeight
    /\ IdleFrames
    /\ IdleTables

MergeContributingColumns ==
    /\ stage = "attributions"
    /\ visitor_contributing_columns' =
           MergeOnContributors(visitor_device_contributing_columns,
                               visitor_geography_contributing_columns)
    /\ stage' = "merged"
    /\ UNCHANGED <<visitor_device_contributing_columns,
                   visitor_geography_contributing_columns>>
    /\ UNCHANGED <<detVars, grpVars, scnVars, aggVars, runVars, attVars, cfgVars, rcVars>>
    /\ UNCHANGED <<wgtVars, frmVars, tblVars>>

NextCombine == MergeContributingColumns

SpecCombine == InitCombine /\ [][NextCombine]_vars

\* The rows of the combined attribution that stand for the hour ds.
CombinedRowsOf(ds) ==
    {r \in visitor_contributing_columns : r.ds_x = ds \/ r.ds_y = ds}

\* C22: the combined attribution has one row per anomalous hour, holding
\* the union of the contributor lists of the two dimension types for that
\* hour; an hour that has contributors for only one dimension type still
\* appears, the missing list being treated as empty.
C22_OneRowPerHourWithUnion ==
    stage = "merged" =>
        \A h \in DOMAIN visitor_device_contributing_columns :
            /\ Cardinality(CombinedRowsOf(h - 1)) = 1
            /\ \A r \in CombinedRowsOf(h - 1) :
                   Range(r.Contributors.columns)
                     = Range(visitor_device_contributing_columns[h].Contributors.columns)
                       \cup Range(visitor_geography_contributing_columns[h].Contributors.columns)

(***************************************************************************)
(* generate_anomaly_group_report on reports in which a metric that is not  *)
(* anomalous at an hour holds any percent_diff too: generate_anomaly_report*)
(* stores the top-level percent_diff of every hour, anomalous or not.      *)
(***************************************************************************)
\* What a cell of the report may hold.
SignCells ==
    { [anomaly |-> a, percent_diff |-> pd] : a \in {0, 1}, pd \in {Zero, Pos, Neg, NaN} }

ReportOfCells(hours, cell) ==
    [h \in 1..hours |->
        LET anomaly == [m \in MetricSet |-> cell[<<h, m>>].anomaly]
        IN  [ds           |-> h - 1,
             anomaly      |-> anomaly,
             percent_diff |-> [m \in MetricSet |-> cell[<<h, m>>].percent_diff],
             contributors |-> [m \in MetricSet |-> {}],
             has_anomaly  |-> HasAnomaly(anomaly)]]

InitSign ==
    /\ stage = "start"
    /\ \E n \in 1..SignHours :
          \E cell \in [(1..n) \X MetricSet -> SignCells] :
              anomaly_report = ReportOfCells(n, cell)
    /\ group_id = << >> /\ group_sign = << >>
    /\ processed_indices = {} /\ i = 1 /\ current_group = 0
    /\ current_group_members = << >> /\ group_changed = FALSE /\ group_df = << >>
    /\ IdleDetector
    /\ IdleScenario
    /\ IdleAggregator
    /\ IdleRun
    /\ IdleAttributor
    /\ IdleConfig
    /\ IdleRootCause
    /\ IdleLater

SpecSign == InitSign /\ [][NextGroup]_vars

\* The positions, in metric order, of the tracked metrics whose top-level
\* percent_diff at the hour of the row is a number other than 0.
NonzeroMetrics(row) ==
    {k \in 1..Len(metric_names) :
        LET v == row.percent_diff[metric_names[k]] IN v.den # 0 /\ v.num # 0}

BucketsOf(s) ==
    {Truncate1h(events_df[n].event_datetime) :
        n \in {k \in 1..Len(events_df) : events_df[k].session_id = s}}

\* The visitors of hour h when unique keeps the rows keep of the input.
VisitorsAtWith(keep, h) ==
    Cardinality({s \in SessionsOf(events_df) :
                    Truncate1h(events_df[keep[s]].event_datetime) = h})

\* C24: for the deduplicated metric visitors each session contributes
\* exactly one count over the whole window, placed in the hour bucket of one
\* of its events, and the hourly counts do not depend on the order of the
\* input rows: every row unique may keep for a session gives the same counts.
C24_OneCountPerSessionAnyOrder ==
    stage # "raw" =>
        /\ \A s \in SessionsOf(events_df) :
              /\ Cardinality({e \in visitors : e.session_id = s}) = 1
              /\ \A e \in visitors : e.session_id = s => e.time_truncated \in BucketsOf(s)
        /\ \A keep \in UniqueChoices(events_df) :
              \A h \in all_hours : VisitorsAtWith(keep, h) = VisitorsAt(h)

(***************************************************************************)
(* determine_anomaly_weight(df, row).  ds is in whole hours; of df the     *)
(* function reads ds, yhat_lower and yhat_upper, of row also y and         *)
(* is_anomaly.  The row need not be one of the rows of df.                 *)
(***************************************************************************)
\* The hours of the rows: 8 and 9 hours apart, and further.
WeightHours == {0, 8, 9, 17}

\* yhat_lower and yhat_upper of an hour.
WeightBounds == {<<1, 2>>, <<2, 2>>, <<3, 5>>}

WeightValues == 0..4

WeightFrameRows ==
    { [ds |-> h, yhat_lower |-> b[1], yhat_upper |-> b[2]] :
        h \in WeightHours, b \in WeightBounds }

WeightRowsOf ==
    { [ds |-> h, y |-> y, yhat_lower |-> b[1], yhat_upper |-> b[2],
       is_anomaly |-> IsAnomaly(y, b[1], b[2])] :
        h \in WeightHours, y \in WeightValues, b \in WeightBounds }

\* A window that reaches 8 hours back only.
InLocalWindowBefore(ds, row_ds) == ds >= row_ds - 8 /\ ds <= row_ds

\* (df['ds'] >= row['ds'] - 8 hours) & (df['ds'] <= row['ds'] + 8 hours)
InLocalWindow(ds, row_ds) == ds >= row_ds - 8 /\ ds <= row_ds + 8

DetermineAnomalyWeight(df, row) ==
    IF row.is_anomaly = 1
    THEN LET window == {k \in 1..Len(df) : InLocalWindow(df[k].ds, row.ds)}
         IN  IF window # {}
             THEN LET upper == SetMin({Abs(df[k].yhat_upper - row.y) : k \in window})
                      lower == SetMin({Abs(df[k].yhat_lower - row.y) : k \in window})
                  IN  IF upper <= lower THEN upper ELSE lower
             ELSE Abs(row.yhat_upper - row.y)
    ELSE 0

InitWeight ==
    /\ stage = "row"
    /\ forecast_df \in SeqsUpTo(WeightFrameRows, WeightRows)
    /\ forecast_row \in WeightRowsOf
    /\ result = 0
    /\ IdleDetector
    /\ IdleGroup
    /\ IdleScenario
    /\ IdleAggregator
    /\ IdleRun
    /\ IdleAttributor
    /\ IdleConfig
    /\ IdleRootCause
    /\ IdleCombine
    /\ IdleFrames
    /\ IdleTables

determine_anomaly_weight ==
    /\ stage = "row"
    /\ result' = DetermineAnomalyWeight(forecast_df, forecast_row)
    /\ stage' = "weighed"
    /\ UNCHANGED <<forecast_df, forecast_row>>
    /\ UNCHANGED <<detVars, grpVars, scnVars, aggVars, runVars, attVars, cfgVars, rcVars>>
    /\ UNCHANGED <<cmbVars, frmVars, tblVars>>

NextWeight == determine_anomaly_weight

SpecWeight == InitWeight /\ [][NextWeight]_vars

\* The rows of the frame within 8 hours before or after the row.
LocalWindow ==
    {k \in 1..Len(forecast_df) : Abs(forecast_df[k].ds - forecast_row.ds) <= 8}

\* The distances from the actual value of the row to the bounds of row r.
BoundDistances(r) ==
    {Abs(r.yhat_upper - forecast_row.y), Abs(r.yhat_lower - forecast_row.y)}

\* C25: for an anomalous hour determine_anomaly_weight returns the minimum
\* absolute distance from the hour's actual value to the upper or lower
\* bound of any forecast point within 8 hours before or after it, and a
\* bound distance of the hour itself when that window is empty.
C25_WeightIsLocalMinimum ==
    (stage = "weighed" /\ forecast_row.is_anomaly = 1) =>
        IF LocalWindow # {}
        THEN result = SetMin(UNION {BoundDistances(forecast_df[k]) : k \in LocalWindow})
        ELSE result \in BoundDistances(forecast_row)

C25_Witness ==
    /\ stage = "weighed"
    /\ forecast_row = [ds |-> 8, y |-> 4, yhat_lower |-> 1, yhat_upper |-> 2, is_anomaly |-> 1]
    /\ forecast_df = << [ds |-> 8, yhat_lower |-> 1, yhat_upper |-> 2],
                        [ds |-> 0, yhat_lower |-> 3, yhat_upper |-> 5] >>
    /\ result = 1

(***************************************************************************)
(* What the pipeline stages do to the frames passed to them.  A frame is   *)
(* an object: tables[id] is its content, a call receives ids, and          *)
(* df[name] = values changes the object df refers to.  A frame has its     *)
(* columns in order and, per column, the values by row.                    *)
(***************************************************************************)
NRows(frame) == Len(frame.data["ds"])

\* The orders in which the hours 0..n-1 may stand in the ds column.
DsColumns(n) ==
    {q \in [1..n -> 0..(n - 1)] : \A a, b \in 1..n : a # b => q[a] # q[b]}

\* The frames passed in: a ds column and one column of values, NaN included.
InputFrames ==
    UNION {{[columns |-> <<"ds", "percent_diff">>,
             data    |-> [ds |-> q, percent_diff |-> v]] :
               q \in DsColumns(n), v \in [1..n -> {NaN, Zero, Pos}]} : n \in 1..FrameRows}

\* The frame after df[name] = values.
AssignColumn(frame, name, values) ==
    [columns |-> IF name \in Range(frame.columns) THEN frame.columns
                 ELSE Append(frame.columns, name),
     data    |-> [c \in (DOMAIN frame.data) \cup {name} |->
                     IF c = name THEN values ELSE frame.data[c]]]

\* df[name] = values on the object ref.
SetItem(tbls, ref, name, values) ==
    [tbls EXCEPT ![ref] = AssignColumn(tbls[ref], name, values)]

\* A new object that holds frame.
NewObject(tbls, frame) == [tables |-> Append(tbls, frame), ref |-> Len(tbls) + 1]

\* No new object: the name refers to the object passed in.
SameObject(tbls, ref) == [tables |-> tbls, ref |-> ref]

\* frame.copy(): a new object with the columns and values of the object ref.
Copy(tbls, ref) == NewObject(tbls, tbls[ref])

\* df.fillna(0): a new frame with 0 in the place of NaN.
FillNa(frame) ==
    [columns |-> frame.columns,
     data    |-> [c \in DOMAIN frame.data |->
                     IF c = "ds" THEN frame.data[c]
                     ELSE [k \in DOMAIN frame.data[c] |->
                              IF IsNaN(frame.data[c][k]) THEN Zero ELSE frame.data[c][k]]]]

\* df.sort_values('ds'): a new frame with the rows in the order of ds.
SortValuesByDs(frame) ==
    LET pos == [h \in 0..(NRows(frame) - 1) |->
                   CHOOSE k \in 1..NRows(frame) : frame.data["ds"][k] = h]
    IN  [columns |-> frame.columns,
         data    |-> [c \in DOMAIN frame.data |->
                         [k \in 1..NRows(frame) |-> frame.data[c][pos[k - 1]]]]]

\* A column that holds value in every row of the frame.
ColumnOf(frame, value) == [k \in 1..NRows(frame) |-> value]

\* for geo in geo_list: new["percent_diff " + geo] = data_curr['percent_diff']
RECURSIVE AddPercentDiffs(_, _, _)
AddPercentDiffs(tbls, ref, k) ==
    IF k > Len(geo_list) THEN tbls
    ELSE AddPercentDiffs(
             SetItem(tbls, ref, "percent_diff " \o geo_list[k], ColumnOf(tbls[ref], Pos)),
             ref, k + 1)

InitFrames ==
    /\ stage = "called"
    /\ \E f, g \in InputFrames : tables = <<f, g>>
    /\ before = tables
    /\ passed = {}
    /\ returned = 0
    /\ IdleDetector
    /\ IdleGroup
    /\ IdleScenario
    /\ IdleAggregator
    /\ IdleRun
    /\ IdleAttributor
    /\ IdleConfig
    /\ IdleRootCause
    /\ IdleCombine
    /\ IdleWeight
    /\ IdleTables

\* anomaly_percents(top_level, bottom_level, geo_list): the top-level frame
\* is object 1 and the bottom-level frame object 2; the fits read object 2.
AnomalyPercentsOnFrames ==
    /\ stage = "called"
    /\ LET new == Copy(tables, 1)
       IN  /\ tables' = AddPercentDiffs(new.tables, new.ref, 1)
           /\ returned' = new.ref
    /\ passed' = {1, 2}
    /\ stage' = "returned"
    /\ UNCHANGED before
    /\ UNCHANGED <<detVars, grpVars, scnVars, aggVars, runVars, attVars, cfgVars, rcVars>>
    /\ UNCHANGED <<cmbVars, wgtVars, tblVars>>

\* create_contributor_col(df): the percent-diff table is object 1.
create_contributor_col ==
    /\ stage = "called"
    /\ LET df == NewObject(tables, FillNa(tables[1]))
       IN  /\ tables' = SetItem(df.tables, df.ref, "Contributors",
                                ColumnOf(df.tables[df.ref], None))
           /\ returned' = df.ref
    /\ passed' = {1}
    /\ stage' = "returned"
    /\ UNCHANGED before
    /\ UNCHANGED <<detVars, grpVars, scnVars, aggVars, runVars, attVars, cfgVars, rcVars>>
    /\ UNCHANGED <<cmbVars, wgtVars, tblVars>>

\* generate_anomaly_group_report(anomaly_report): the report is object 1.
\* The function works on a copy, adds the two columns, sorts into a new
\* frame, writes the signs and group ids there and returns a frame it builds.
GroupReportOnFrames ==
    /\ stage = "called"
    /\ LET df     == Copy(tables, 1)
           t1     == SetItem(df.tables, df.ref, "group_id", ColumnOf(df.tables[df.ref], NaN))
           t2     == SetItem(t1, df.ref, "group_sign", ColumnOf(t1[df.ref], NaN))
           sorted == NewObject(t2, SortValuesByDs(t2[df.ref]))
           t3     == SetItem(sorted.tables, sorted.ref, "group_sign",
                             ColumnOf(sorted.tables[sorted.ref], Pos))
           t4     == SetItem(t3, sorted.ref, "group_id", ColumnOf(t3[sorted.ref], Pos))
           group_report == NewObject(t4, [columns |-> <<"ds">>, data |-> [ds |-> <<0>>]])
       IN  /\ tables' = group_report.tables
           /\ returned' = group_report.ref
    /\ passed' = {1}
    /\ stage' = "returned"
    /\ UNCHANGED before
    /\ UNCHANGED <<detVars, grpVars, scnVars, aggVars, runVars, attVars, cfgVars, rcVars>>
    /\ UNCHANGED <<cmbVars, wgtVars, tblVars>>

\* analyze_anomaly_scenarios(group_report, anomaly_report): objects 2 and 1.
\* The function reads the two frames and returns a dict.
ScenariosOnFrames ==
    /\ stage = "called"
    /\ passed' = {1, 2}
    /\ returned' = 0
    /\ stage' = "returned"
    /\ UNCHANGED <<tables, before>>
    /\ UNCHANGED <<detVars, grpVars, scnVars, aggVars, runVars, attVars, cfgVars, rcVars>>
    /\ UNCHANGED <<cmbVars, wgtVars, tblVars>>

NextFrames ==
    \/ AnomalyPercentsOnFrames
    \/ create_contributor_col
    \/ GroupReportOnFrames
    \/ ScenariosOnFrames

SpecFrames == InitFrames /\ [][NextFrames]_vars

\* C26: no pipeline stage mutates its input: after anomaly_percents,
\* create_contributor_col, generate_anomaly_group_report and
\* analyze_anomaly_scenarios return, the tables passed to them have the same
\* columns and values as before the call.
C26_InputsAreNotMutated ==
    stage = "returned" => \A id \in passed : tables[id] = before[id]

C26_Witness ==
    /\ stage = "returned"
    /\ passed = {1}
    /\ before[1].data["ds"] = <<1, 0>>
    /\ before[1].data["percent_diff"] = <<NaN, Pos>>
    /\ \E id \in DOMAIN tables :
          /\ "group_sign" \in Range(tables[id].columns)
          /\ tables[id].data["ds"] = <<0, 1>>
    /\ tables[1] = before[1]

(***************************************************************************)
(* C27: generate_anomaly_group_report partitions the anomalous hours:      *)
(* every hour with has_anomaly = 1 and a determinable sign receives        *)
(* exactly one group_id and is a member of exactly one episode, all hours  *)
(* sharing a group_id have the same recorded sign, equal to the episode's  *)
(* group_sign, and no hour without an anomaly receives a group_id.         *)
(***************************************************************************)
EpisodesOf(k) == {e \in 1..Len(group_df) : k \in Members(group_df[e].group_id)}

C27_GroupsPartitionAnomalousHours ==
    stage = "grouped" =>
        /\ \A k \in 1..Len(anomaly_report) :
              (anomaly_report[k].has_anomaly = 1 /\ RowSign(anomaly_report[k]) # 0) =>
                  /\ group_id[k] \in 1..current_group
                  /\ Cardinality(EpisodesOf(k)) = 1
        /\ \A e \in 1..Len(group_df) :
              \A a \in Members(group_df[e].group_id) :
                  /\ group_sign[a] = group_df[e].group_sign
                  /\ group_sign[a] = RowSign(anomaly_report[a])
        /\ \A k \in 1..Len(anomaly_report) :
              anomaly_report[k].has_anomaly = 0 => (group_id[k] = 0 /\ EpisodesOf(k) = {})

C27_Witness ==
    /\ stage = "grouped"
    /\ Len(anomaly_report) = 2
    /\ anomaly_report[1].has_anomaly = 0
    /\ RowSign(anomaly_report[1]) = 1
    /\ anomaly_report[2].has_anomaly = 1
    /\ RowSign(anomaly_report[2]) = 1
    /\ group_id = <<0, 1>>
    /\ Len(group_df) = 1

(***************************************************************************)
(* C28: the metrics and contributors that analyze_anomaly_scenarios uses   *)
(* to classify an episode come only from hours that are members of that    *)
(* episode: the metric set of the episode's entry holds only metrics that  *)
(* are the highest priority metric of a member hour, and the entry is in   *)
(* list D when the members have one such metric.                           *)
(***************************************************************************)
MemberMetrics(e) ==
    {MinByPriority(HourMetrics(anomaly_report[k])) : k \in Members(e.group_id)}

C28_OnlyMemberHoursInfluence ==
    stage = "classified" =>
        \A x \in 1..Len(group_df) :
            \A L \in {"A", "B", "C", "D"} :
                \A n \in EntrySet(L, group_df[x]) :
                    /\ scenarios[L][n].metrics \subseteq MemberMetrics(group_df[x])
                    /\ Cardinality(MemberMetrics(group_df[x])) = 1 => L = "D"

(***************************************************************************)
(* The two per-hour anomaly tables: anomaly_df, built from the is_anomaly  *)
(* column of every metric's top-level forecast, and the <metric>_anomaly   *)
(* columns of generate_anomaly_report.  The window is the hours            *)
(* 0..TableHours-1; a forecast has one row per hour the metric has data    *)
(* for, in the order of ds, and may reach one hour past the window.        *)
(***************************************************************************)
window_hours == [k \in 1..TableHours |-> k - 1]

\* The rows of a forecast with data at the hours `present`, anomalous at the
\* hours `anomalous`, in the order of ds.
RECURSIVE ForecastRows(_, _)
ForecastRows(present, anomalous) ==
    IF present = {} THEN << >>
    ELSE LET h == SetMin(present)
         IN  <<[ds |-> h, is_anomaly |-> IF h \in anomalous THEN 1 ELSE 0]>>
             \o ForecastRows(present \ {h}, anomalous)

\* anomaly_df[<model>_anomaly]: the is_anomaly column by position, padded
\* with zeros at the end when shorter than the window, cut when longer.
AnomalyColumn(model_data, n) ==
    LET is_anomaly == [k \in 1..Len(model_data) |-> model_data[k].is_anomaly]
    IN  IF Len(is_anomaly) < n
        THEN is_anomaly \o [k \in 1..(n - Len(is_anomaly)) |-> 0]
        ELSE IF Len(is_anomaly) > n THEN SubSeq(is_anomaly, 1, n)
        ELSE is_anomaly

\* report_df.at[idx, <metric>_anomaly]: 0, or 1 when a row of the forecast
\* with this ds is anomalous.
ReportFlag(top_level_frame, ds) ==
    LET top_level_data == SelectSeq(top_level_frame, LAMBDA r : r.ds = ds)
    IN  IF Len(top_level_data) > 0
        THEN (IF \E k \in 1..Len(top_level_data) : top_level_data[k].is_anomaly = 1
              THEN 1 ELSE 0)
        ELSE 0

InitTables ==
    /\ stage = "fitted"
    /\ \E present \in [MetricSet -> SUBSET (0..TableHours)] :
          \E anomalous \in [MetricSet -> SUBSET (0..TableHours)] :
              /\ \A m \in MetricSet :
                    Cardinality(present[m]) >= 2 /\ anomalous[m] \subseteq present[m]
              /\ models = [m \in MetricSet |-> ForecastRows(present[m], anomalous[m])]
    /\ anomaly_df = << >>
    /\ report_df = << >>
    /\ IdleDetector
    /\ IdleGroup
    /\ IdleScenario
    /\ IdleAggregator
    /\ IdleRun
    /\ IdleAttributor
    /\ IdleConfig
    /\ IdleRootCause
    /\ IdleCombine
    /\ IdleWeight
    /\ IdleFrames

\* The cell that builds anomaly_df: one column per model, then event_names.
BuildAnomalyDf ==
    /\ stage = "fitted"
    /\ anomaly_df' =
          [k \in 1..Len(window_hours) |->
              [hour        |-> window_hours[k],
               event_names |-> SelectSeq(metric_names,
                                  LAMBDA m : AnomalyColumn(models[m], Len(window_hours))[k] = 1)]]
    /\ stage' = "combined"
    /\ UNCHANGED <<models, report_df>>
    /\ UNCHANGED <<detVars, grpVars, scnVars, aggVars, runVars, attVars, cfgVars, rcVars>>
    /\ UNCHANGED <<cmbVars, wgtVars, frmVars>>

\* The top-level loop of generate_anomaly_report over the hours of the window.
ReportAnomalyFlags ==
    /\ stage = "combined"
    /\ report_df' =
          [k \in 1..Len(window_hours) |->
              [ds      |-> window_hours[k],
               anomaly |-> [m \in MetricSet |-> ReportFlag(models[m], window_hours[k])]]]
    /\ stage' = "reported"
    /\ UNCHANGED <<models, anomaly_df>>
    /\ UNCHANGED <<detVars, grpVars, scnVars, aggVars, runVars, attVars, cfgVars, rcVars>>
    /\ UNCHANGED <<cmbVars, wgtVars, frmVars>>

NextTables ==
    \/ BuildAnomalyDf
    \/ ReportAnomalyFlags

SpecTables == InitTables /\ [][NextTables]_vars

\* C29: the two per-hour anomaly tables agree: for every metric and every
\* hour h of the window, the metric is listed in anomaly_df.event_names at h
\* exactly when the metric's forecast row with ds = h has is_anomaly = 1,
\* which is also the flag generate_anomaly_report stores for (metric, h).
C29_AnomalyTablesAgree ==
    stage = "reported" =>
        \A m \in MetricSet :
            \A k \in 1..Len(window_hours) :
                LET listed  == m \in Range(anomaly_df[k].event_names)
                    flagged == \E n \in 1..Len(models[m]) :
                                  /\ models[m][n].ds = window_hours[k]
                                  /\ models[m][n].is_anomaly = 1
                IN  /\ listed <=> flagged
                    /\ flagged <=> (report_df[k].anomaly[m] = 1)

\* The second half alone: the flag of the report is that of the row with ds = h.
C29_ReportFlagIsRowFlag ==
    stage = "reported" =>
        \A m \in MetricSet :
            \A k \in 1..Len(window_hours) :
                (report_df[k].anomaly[m] = 1) <=>
                    \E n \in 1..Len(models[m]) :
                        /\ models[m][n].ds = window_hours[k]
                        /\ models[m][n].is_anomaly = 1

(***************************************************************************)
(* Termination of the grouping loops.  The function is one thread of       *)
(* control that takes its next step whenever it has one, hence the weak    *)
(* fairness of the steps of its loops.                                     *)
(***************************************************************************)
InitLoops ==
    /\ stage = "start"
    /\ \E cells \in CellSets(LoopHours, MaxLoopAnomalies) :
          \E kind \in [cells -> GroupKinds] :
              anomaly_report = Report(LoopHours, cells, kind)
    /\ group_id = << >> /\ group_sign = << >>
    /\ processed_indices = {} /\ i = 1 /\ current_group = 0
    /\ current_group_members = << >> /\ group_changed = FALSE /\ group_df = << >>
    /\ IdleDetector
    /\ IdleScenario
    /\ IdleAggregator
    /\ IdleRun
    /\ IdleAttributor
    /\ IdleConfig
    /\ IdleRootCause
    /\ IdleLater

\* The steps of the first pass, of `while i < len(anomaly_indices)` and of
\* `while group_changed`.
GroupingLoops ==
    \/ FirstPass
    \/ SkipProcessed
    \/ SkipNoSign
    \/ StartGroup
    \/ AbsorbPass
    \/ EndGroup

SpecLoops == InitLoops /\ [][NextGroup]_vars /\ WF_vars(GroupingLoops)

\* `while i < len(anomaly_indices)` has been left.
LoopsAreOver ==
    \/ stage = "grouped"
    \/ stage = "seed" /\ i > Len(AnomalyIndices(anomaly_report))

AnomalousHours == {k \in 1..Len(anomaly_report) : anomaly_report[k].has_anomaly = 1}

\* A pass of the absorption loop adds at least one hour to the current group
\* or leaves group_changed False, and the step after such a pass closes the
\* group.
PassAddsOrEnds ==
    /\ AbsorbPass =>
          \/ /\ Len(current_group_members') > Len(current_group_members)
             /\ Range(current_group_members) \subseteq Range(current_group_members')
          \/ /\ ~group_changed'
             /\ current_group_members' = current_group_members
    /\ (stage = "absorb" /\ ~group_changed) =>
          (stage' = "seed" /\ i' = i + 1 /\ current_group' = current_group)
    /\ i' >= i
    /\ processed_indices \subseteq processed_indices'

\* C30: the grouping loops of generate_anomaly_group_report terminate for
\* every finite set of anomalous hours, each pass of the absorption loop
\* either adding at least one hour to the current group or ending it, and the
\* number of episodes produced never exceeds the number of anomalous hours.
C30_GroupingTerminates ==
    /\ <>LoopsAreOver
    /\ [][PassAddsOrEnds]_vars
    /\ [](/\ current_group <= Cardinality(AnomalousHours)
          /\ Len(group_df) <= Cardinality(AnomalousHours))

C30_Witness ==
    /\ stage = "grouped"
    /\ AnomalousHours = {1, 4}
    /\ Len(group_df) = 1
    /\ Members(group_df[1].group_id) = {1, 4}

====
